---- MODULE Spec2Model ----
(***************************************************************************)
(* ChainWhisper: the ledger contracts (ChatSession, ChatFactory,           *)
(* ChatContract), the SessionManager client, the session event scan, the   *)
(* EncryptionService and the conversation listing, as state machines.      *)
(*                                                                         *)
(* Addresses are small naturals (0 is the zero address).  A session id is  *)
(* the keccak of (sender, participant, timestamp, prevrandao,              *)
(* totalSessions); totalSessions grows with every creation, so the hash    *)
(* input never repeats and the id is modelled as totalSessions + 1.  The   *)
(* CREATE2 address of a session is a function of its id.                   *)
(* One clock `now` stands for block.timestamp and for Date.now()/1000.     *)
(***************************************************************************)
EXTENDS Integers, Sequences, FiniteSets, TLC

\* ------------------------------------------------------------------ bounds
MaxTicks == 2
MaxSessions == 2
MaxEvents == 2
MaxMainMsgs == 1
MaxScanEvents == 2
MaxMergeMain == 3
MaxMergeSession == 2
MaxRender == 2
MaxConversation == 2
MaxLifecycleEvents == 1

\* ------------------------------------------------------- program constants
SESSION_DURATION == 3600
MAX_SESSIONS_PER_USER == 100
ONE_HOUR == 3600
ONE_YEAR == 31536000
ZeroAddress == 0

Users == {1, 2, 3}
IdSpace == 0..(MaxSessions + 1)
Clients == {1, 2}
Peer(u) == CHOOSE v \in Clients : v # u
TickSteps == {1, SESSION_DURATION}
Unobserved == [op |-> "unobserved", sender |-> 0, reason |-> "unobserved"]

VARIABLES
    now, ticks,
    sess, factory, chat,
    lastTx,
    pc, lk, res, activeSessionsCache, listing,
    scan, view

chainVars == <<now, ticks, sess, factory, chat>>
clientVars == <<pc, lk, res, activeSessionsCache, listing>>
offChain == <<clientVars, scan, view>>
vars == <<chainVars, lastTx, offChain>>

\* The receipt of the last transaction (kept only where a specification
\* starts with one).
RecordTx(op, sender, r) ==
    IF lastTx = Unobserved THEN lastTx ELSE [op |-> op, sender |-> sender, reason |-> r]

\* ------------------------------------------------------------- ChatSession
NewChatSession(p1, p2, t) ==
    [participant1 |-> p1, participant2 |-> p2, messageCount |-> 0,
     sessionActive |-> TRUE, createdAt |-> t, lastActivity |-> t,
     sessionExpiry |-> t + SESSION_DURATION, events |-> <<>>]

onlyParticipants(s, sender) ==
    sender = s.participant1 \/ sender = s.participant2

sessionMustBeActive_AtDeadline(s, t) ==
    IF ~s.sessionActive THEN "Session closed"
    ELSE IF ~(t <= s.sessionExpiry) THEN "Session expired"
    ELSE "ok"

sessionMustBeActive(s, t) ==
    IF ~s.sessionActive THEN "Session closed"
    ELSE IF ~(t < s.sessionExpiry) THEN "Session expired"
    ELSE "ok"

isSessionExpired(s, t) == t >= s.sessionExpiry

sendMessageRevert(s, sender, cid, messageType, expiry, t) ==
    IF ~onlyParticipants(s, sender) THEN "Unauthorized: not a participant"
    ELSE IF sessionMustBeActive(s, t) # "ok" THEN sessionMustBeActive(s, t)
    ELSE IF cid = "" THEN "CID required"
    ELSE IF messageType = "" THEN "Message type required"
    ELSE IF expiry > 0 /\ ~(expiry > t) THEN "Invalid expiry"
    ELSE "ok"

sendMessageEffect_ExtendsDeadline(s, sender, cid, expiry, t) ==
    [s EXCEPT !.lastActivity = t,
              !.sessionExpiry = t + SESSION_DURATION,
              !.events = Append(@, [from |-> sender, cid |-> cid, timestamp |-> t,
                                    expiry |-> expiry, messageIndex |-> s.messageCount]),
              !.messageCount = @ + 1]

\* A sendMessage that emits ++messageCount instead of messageCount++.
sendMessageEffect_PreIncrement(s, sender, cid, expiry, t) ==
    [s EXCEPT !.lastActivity = t,
              !.events = Append(@, [from |-> sender, cid |-> cid, timestamp |-> t,
                                    expiry |-> expiry,
                                    messageIndex |-> s.messageCount + 1]),
              !.messageCount = @ + 1]

sendMessageEffect(s, sender, cid, expiry, t) ==
    [s EXCEPT !.lastActivity = t,
              !.events = Append(@, [from |-> sender, cid |-> cid, timestamp |-> t,
                                    expiry |-> expiry, messageIndex |-> s.messageCount]),
              !.messageCount = @ + 1]

closeSessionRevert(s, sender) ==
    IF ~onlyParticipants(s, sender) THEN "Unauthorized: not a participant" ELSE "ok"

\* A closeSession that flips the flag instead of clearing it.
closeSessionEffect_Toggle(s) == [s EXCEPT !.sessionActive = ~@]

closeSessionEffect(s) == [s EXCEPT !.sessionActive = FALSE]

forceExpireSessionRevert_ClosedFirst(s, t) ==
    IF ~s.sessionActive THEN "Session already closed"
    ELSE IF ~(t >= s.sessionExpiry) THEN "Session not yet expired"
    ELSE "ok"

\* forceExpireSession without its deadline requirement.
forceExpireSessionRevert_NoDeadline(s, t) ==
    IF ~s.sessionActive THEN "Session already closed" ELSE "ok"

forceExpireSessionRevert(s, t) ==
    IF ~(t >= s.sessionExpiry) THEN "Session not yet expired"
    ELSE IF ~s.sessionActive THEN "Session already closed"
    ELSE "ok"

forceExpireSessionEffect(s) == [s EXCEPT !.sessionActive = FALSE]

SessionAddrs == 1..Len(sess)

RECURSIVE TotalEvents(_)
TotalEvents(ss) ==
    IF ss = <<>> THEN 0
    ELSE Len(ss[Len(ss)].events) + TotalEvents(SubSeq(ss, 1, Len(ss) - 1))
SendInputs == {<<"env", "text">>, <<"", "text">>, <<"env", "">>}
ExpiryInputs(t) == {0, t, t + 1}

ChatSession_sendMessage(sender, a, cid, messageType, expiry) ==
    /\ a \in SessionAddrs
    /\ TotalEvents(sess) < MaxEvents
    /\ LET r == sendMessageRevert(sess[a], sender, cid, messageType, expiry, now) IN
         /\ sess' = IF r = "ok"
                    THEN [sess EXCEPT ![a] = sendMessageEffect(@, sender, cid, expiry, now)]
                    ELSE sess
         /\ lastTx' = RecordTx("ChatSession.sendMessage", sender, r)
    /\ UNCHANGED <<now, ticks, factory, chat, offChain>>

closeSession(sender, a) ==
    /\ a \in SessionAddrs
    /\ LET r == closeSessionRevert(sess[a], sender) IN
         /\ sess' = IF r = "ok" THEN [sess EXCEPT ![a] = closeSessionEffect(@)] ELSE sess
         /\ lastTx' = RecordTx("ChatSession.closeSession", sender, r)
    /\ UNCHANGED <<now, ticks, factory, chat, offChain>>

forceExpireSession(sender, a) ==
    /\ a \in SessionAddrs
    /\ LET r == forceExpireSessionRevert(sess[a], now) IN
         /\ sess' = IF r = "ok" THEN [sess EXCEPT ![a] = forceExpireSessionEffect(@)] ELSE sess
         /\ lastTx' = RecordTx("ChatSession.forceExpireSession", sender, r)
    /\ UNCHANGED <<now, ticks, factory, chat, offChain>>

\* ------------------------------------------------------------- ChatFactory
SessionIdOf(total) == total + 1
AddressOf(sessionId) == sessionId

ActiveSessionExists_Never(f, ss, sender, participant, t) == FALSE

\* An existing-session check that only sees sessions the caller initiated.
ActiveSessionExists_OwnOnly(f, ss, sender, participant, t) ==
    LET existingSessionId == f.participantPairToSession[sender][participant]
        existingContract == f.sessionContracts[existingSessionId] IN
    /\ existingSessionId # 0
    /\ existingContract # ZeroAddress
    /\ ss[existingContract].participant1 = sender
    /\ ss[existingContract].sessionActive
    /\ ~isSessionExpired(ss[existingContract], t)

ActiveSessionExists(f, ss, sender, participant, t) ==
    LET existingSessionId == f.participantPairToSession[sender][participant]
        existingContract == f.sessionContracts[existingSessionId] IN
    /\ existingSessionId # 0
    /\ existingContract # ZeroAddress
    /\ ss[existingContract].sessionActive
    /\ ~isSessionExpired(ss[existingContract], t)

ExpiredButActive(f, ss, sender, participant, t) ==
    LET existingSessionId == f.participantPairToSession[sender][participant]
        existingContract == f.sessionContracts[existingSessionId] IN
    /\ existingSessionId # 0
    /\ existingContract # ZeroAddress
    /\ ss[existingContract].sessionActive
    /\ isSessionExpired(ss[existingContract], t)

createChatSessionRevert(f, ss, sender, participant, t) ==
    IF participant = ZeroAddress THEN "Invalid participant"
    ELSE IF participant = sender THEN "Cannot session with yourself"
    ELSE IF ~(Len(f.userSessions[sender]) < MAX_SESSIONS_PER_USER)
         THEN "Maximum sessions reached"
    ELSE IF f.sessionContracts[SessionIdOf(f.totalSessions)] # ZeroAddress
         THEN "Session collision"
    ELSE IF ActiveSessionExists(f, ss, sender, participant, t) THEN "Active session exists"
    ELSE IF ExpiredButActive(f, ss, sender, participant, t) /\ f.activeSessions = 0
         THEN "Panic: arithmetic underflow"
    ELSE "ok"

\* A creation that replaces the caller's session list instead of pushing to it.
createChatSessionEffect_ReplacesList(f, ss, sender, participant, t) ==
    LET sessionId == SessionIdOf(f.totalSessions)
        sessionContract == AddressOf(sessionId)
        dec == IF ExpiredButActive(f, ss, sender, participant, t) THEN 1 ELSE 0 IN
    [f EXCEPT !.sessionContracts[sessionId] = sessionContract,
              !.userSessions[sender] = <<sessionId>>,
              !.userSessions[participant] = Append(@, sessionId),
              !.participantPairToSession[sender][participant] = sessionId,
              !.participantPairToSession[participant][sender] = sessionId,
              !.totalSessions = @ + 1,
              !.activeSessions = (@ - dec) + 1]

\* A creation that records the pair in the caller's direction only.
createChatSessionEffect_OneDirection(f, ss, sender, participant, t) ==
    LET sessionId == SessionIdOf(f.totalSessions)
        sessionContract == AddressOf(sessionId)
        dec == IF ExpiredButActive(f, ss, sender, participant, t) THEN 1 ELSE 0 IN
    [f EXCEPT !.sessionContracts[sessionId] = sessionContract,
              !.userSessions[sender] = Append(@, sessionId),
              !.userSessions[participant] = Append(@, sessionId),
              !.participantPairToSession[sender][participant] = sessionId,
              !.totalSessions = @ + 1,
              !.activeSessions = (@ - dec) + 1]

createChatSessionEffect(f, ss, sender, participant, t) ==
    LET sessionId == SessionIdOf(f.totalSessions)
        sessionContract == AddressOf(sessionId)
        dec == IF ExpiredButActive(f, ss, sender, participant, t) THEN 1 ELSE 0 IN
    [f EXCEPT !.sessionContracts[sessionId] = sessionContract,
              !.userSessions[sender] = Append(@, sessionId),
              !.userSessions[participant] = Append(@, sessionId),
              !.participantPairToSession[sender][participant] = sessionId,
              !.participantPairToSession[participant][sender] = sessionId,
              !.totalSessions = @ + 1,
              !.activeSessions = (@ - dec) + 1]

\* The ledger's part of one createChatSession transaction.
createChatSessionCall(sender, participant) ==
    LET r == createChatSessionRevert(factory, sess, sender, participant, now) IN
    IF r = "ok"
    THEN /\ factory' = createChatSessionEffect(factory, sess, sender, participant, now)
         /\ sess' = Append(sess, NewChatSession(sender, participant, now))
    ELSE UNCHANGED <<factory, sess>>

createChatSessionTx(sender, participant) ==
    /\ createChatSessionCall(sender, participant)
    /\ lastTx' = RecordTx("ChatFactory.createChatSession", sender,
                          createChatSessionRevert(factory, sess, sender, participant, now))
    /\ UNCHANGED <<now, ticks, chat, offChain>>

createChatSession(sender, participant) ==
    /\ factory.totalSessions < MaxSessions
    /\ createChatSessionTx(sender, participant)

\* A lookup that reports the session's flag without its deadline.
getSessionBetween_FlagOnly(f, ss, user1, user2, t) ==
    LET sessionId == f.participantPairToSession[user1][user2]
        contractAddr == f.sessionContracts[sessionId] IN
    [sessionId |-> sessionId, contractAddr |-> contractAddr,
     isActive |-> IF contractAddr # ZeroAddress
                  THEN ss[contractAddr].sessionActive
                  ELSE FALSE]

getSessionBetween(f, ss, user1, user2, t) ==
    LET sessionId == f.participantPairToSession[user1][user2]
        contractAddr == f.sessionContracts[sessionId] IN
    [sessionId |-> sessionId, contractAddr |-> contractAddr,
     isActive |-> IF contractAddr # ZeroAddress
                  THEN ss[contractAddr].sessionActive /\ ~isSessionExpired(ss[contractAddr], t)
                  ELSE FALSE]

\* The loop of cleanupExpiredSessions from index i on: the sessions and the
\* activeSessions counter it leaves, or a revert when the counter underflows.
RECURSIVE cleanupLoop(_, _, _, _, _, _)
cleanupLoop(f, sessionIds, i, ss, active, t) ==
    IF i > Len(sessionIds) THEN [reason |-> "ok", sess |-> ss, activeSessions |-> active]
    ELSE LET sessionAddr == f.sessionContracts[sessionIds[i]] IN
         IF sessionAddr # ZeroAddress
            /\ isSessionExpired(ss[sessionAddr], t) /\ ss[sessionAddr].sessionActive
         THEN IF forceExpireSessionRevert(ss[sessionAddr], t) # "ok"
              THEN [reason |-> forceExpireSessionRevert(ss[sessionAddr], t),
                    sess |-> ss, activeSessions |-> active]
              ELSE IF active = 0
              THEN [reason |-> "Panic: arithmetic underflow",
                    sess |-> ss, activeSessions |-> active]
              ELSE cleanupLoop(f, sessionIds, i + 1,
                               [ss EXCEPT ![sessionAddr] = forceExpireSessionEffect(@)],
                               active - 1, t)
         ELSE cleanupLoop(f, sessionIds, i + 1, ss, active, t)

cleanupExpiredSessions(sender, sessionIds) ==
    LET out == cleanupLoop(factory, sessionIds, 1, sess, factory.activeSessions, now) IN
    /\ IF out.reason = "ok"
       THEN /\ sess' = out.sess
            /\ factory' = [factory EXCEPT !.activeSessions = out.activeSessions]
       ELSE UNCHANGED <<sess, factory>>
    /\ lastTx' = RecordTx("ChatFactory.cleanupExpiredSessions", sender, out.reason)
    /\ UNCHANGED <<now, ticks, chat, offChain>>

\* ------------------------------------------------------------ ChatContract
\* keccak256(abi.encodePacked(lo, hi)) of the ordered pair, as the pair itself.
generateConversationHash_Ordered(user1, user2) == <<user1, user2>>

generateConversationHash(user1, user2) ==
    IF user1 > user2 THEN <<user2, user1>> ELSE <<user1, user2>>

ConversationHashes == {generateConversationHash(a, b) : a \in Users, b \in Users}

ChatContract_sendMessageRevert_ExpiryAtNow(sender, to, cid, messageType, expiry, t) ==
    IF to = ZeroAddress THEN "Invalid recipient"
    ELSE IF to = sender THEN "Cannot message yourself"
    ELSE IF cid = "" THEN "CID required"
    ELSE IF messageType = "" THEN "Message type required"
    ELSE IF expiry > 0 /\ ~(expiry >= t) THEN "Expiry must be in future"
    ELSE IF expiry > 0 /\ ~(expiry <= t + ONE_YEAR) THEN "Expiry too far"
    ELSE "ok"

ChatContract_sendMessageRevert(sender, to, cid, messageType, expiry, t) ==
    IF to = ZeroAddress THEN "Invalid recipient"
    ELSE IF to = sender THEN "Cannot message yourself"
    ELSE IF cid = "" THEN "CID required"
    ELSE IF messageType = "" THEN "Message type required"
    ELSE IF expiry > 0 /\ ~(expiry > t) THEN "Expiry must be in future"
    ELSE IF expiry > 0 /\ ~(expiry <= t + ONE_YEAR) THEN "Expiry too far"
    ELSE "ok"

\* A sendMessage that indexes the message for its sender only.
ChatContract_sendMessageEffect_SenderIndexOnly(c, sender, to, cid, messageType, expiry, t) ==
    LET messageId == c.messageCounter
        conversationHash == generateConversationHash(sender, to) IN
    [c EXCEPT !.messageCounter = @ + 1,
              !.messages = Append(@, [from |-> sender, to |-> to, cid |-> cid,
                                      timestamp |-> t, expiry |-> expiry,
                                      isMedia |-> FALSE, messageType |-> messageType,
                                      conversationHash |-> conversationHash]),
              !.userMessages[sender] = Append(@, messageId),
              !.conversationMessages[conversationHash] = Append(@, messageId),
              !.totalMessages = @ + 1]

ChatContract_sendMessageEffect(c, sender, to, cid, messageType, expiry, t) ==
    LET messageId == c.messageCounter
        conversationHash == generateConversationHash(sender, to) IN
    [c EXCEPT !.messageCounter = @ + 1,
              !.messages = Append(@, [from |-> sender, to |-> to, cid |-> cid,
                                      timestamp |-> t, expiry |-> expiry,
                                      isMedia |-> FALSE, messageType |-> messageType,
                                      conversationHash |-> conversationHash]),
              !.userMessages[sender] = Append(@, messageId),
              !.userMessages[to] = Append(@, messageId),
              !.conversationMessages[conversationHash] = Append(@, messageId),
              !.totalMessages = @ + 1]

ChatContract_sendMessageTx(sender, to, cid, messageType, expiry) ==
    /\ LET r == ChatContract_sendMessageRevert(sender, to, cid, messageType, expiry, now) IN
         /\ chat' = IF r = "ok"
                    THEN ChatContract_sendMessageEffect(chat, sender, to, cid,
                                                        messageType, expiry, now)
                    ELSE chat
         /\ lastTx' = RecordTx("ChatContract.sendMessage", sender, r)
    /\ UNCHANGED <<now, ticks, sess, factory, offChain>>

ChatContract_sendMessage(sender, to, cid, messageType, expiry) ==
    /\ chat.messageCounter < MaxMainMsgs
    /\ ChatContract_sendMessageTx(sender, to, cid, messageType, expiry)

\* getMessage(messageId): the stored record (ids count from 0).
getMessage(c, messageId) == c.messages[messageId + 1]

\* -------------------------------------------------------------------- time
Tick(d) ==
    /\ ticks < MaxTicks
    /\ now' = now + d
    /\ ticks' = ticks + 1
    /\ UNCHANGED <<sess, factory, chat, lastTx, offChain>>

\* --------------------------------------------------- conversation messages
\* Array.prototype.sort with (a, b) => a.timestamp - b.timestamp: a stable
\* sort, as an insertion of each element behind its equals.
RECURSIVE insertByTimestamp(_, _)
insertByTimestamp(sorted, m) ==
    IF sorted = <<>> THEN <<m>>
    ELSE IF sorted[Len(sorted)].timestamp - m.timestamp > 0
         THEN Append(insertByTimestamp(SubSeq(sorted, 1, Len(sorted) - 1), m),
                     sorted[Len(sorted)])
         ELSE Append(sorted, m)

RECURSIVE sortByTimestamp(_)
sortByTimestamp(ms) ==
    IF ms = <<>> THEN <<>>
    ELSE insertByTimestamp(sortByTimestamp(SubSeq(ms, 1, Len(ms) - 1)), ms[Len(ms)])

\* The entries of s at the indices in keep, in order.
\* The records in front of the first one that is not in keep.
keepAt_UntilFailure(s, keep) ==
    SubSeq(s, 1, IF \E i \in 1..Len(s) : i \notin keep
                 THEN (CHOOSE i \in 1..Len(s) :
                          i \notin keep /\ \A j \in 1..(i - 1) : j \in keep) - 1
                 ELSE Len(s))

RECURSIVE keepAt(_, _)
keepAt(s, keep) ==
    IF s = <<>> THEN <<>>
    ELSE LET front == keepAt(SubSeq(s, 1, Len(s) - 1), keep) IN
         IF Len(s) \in keep THEN Append(front, s[Len(s)]) ELSE front

\* BlockchainService.getConversationMessages: one record per id whose
\* getMessage succeeded, in id order.
mainRecord(c, messageId) ==
    LET messageData == getMessage(c, messageId) IN
    [messageId |-> messageId, from |-> messageData.from, to |-> messageData.to,
     cid |-> messageData.cid, timestamp |-> messageData.timestamp,
     expiry |-> messageData.expiry, source |-> "main", sessionAddress |-> ZeroAddress]

getConversationMessages(c, user, otherAddress, fetched) ==
    LET messageIds == c.conversationMessages[generateConversationHash(user, otherAddress)] IN
    keepAt([i \in 1..Len(messageIds) |-> mainRecord(c, messageIds[i])], fetched)

\* One MessageSent event of a session, as getSessionMessagesWithLimit records it.
sessionRecord(sessionAddress, event) ==
    [messageId |-> event.messageIndex, from |-> event.from, to |-> ZeroAddress,
     cid |-> event.cid, timestamp |-> event.timestamp, expiry |-> event.expiry,
     source |-> "session", sessionAddress |-> sessionAddress]

\* getSessionMessagesWithLimit on a channel all of whose events lie in the
\* scanned window: the events of the chunks whose query succeeded (those at
\* the indices in fetched), sorted by timestamp.  The chunk walk is ScanSpec's.
sessionMessagesOf(ss, sessionAddress, fetched) ==
    sortByTimestamp(keepAt([i \in 1..Len(ss[sessionAddress].events) |->
                               sessionRecord(sessionAddress, ss[sessionAddress].events[i])],
                           fetched))

mergeConversation_SessionFirst(standardMessages, sessionMessages) ==
    sortByTimestamp(sessionMessages \o standardMessages)

\* handleReplayCommand's merge.
mergeConversation(standardMessages, sessionMessages) ==
    sortByTimestamp(standardMessages \o sessionMessages)

\* ---------------------------------------------------------- SessionManager
NoResult == [status |-> "none", contractAddress |-> ZeroAddress, existed |-> FALSE,
             at |-> "", reason |-> ""]
Returned(addr, existed) ==
    [status |-> "ok", contractAddress |-> addr, existed |-> existed,
     at |-> "", reason |-> ""]
Threw(at, reason) ==
    [status |-> "threw", contractAddress |-> ZeroAddress, existed |-> FALSE,
     at |-> at, reason |-> reason]
NoListing == [all |-> <<>>, complete |-> TRUE, standardFetched |-> TRUE, sessionFetched |-> TRUE]

\* The catch of createSession rethrows.
createSession_catch(at, reason) == Threw(at, reason)

\* The catch of the age check: whatever was thrown inside its try, the
\* function goes on to reuse the channel it had found (at and reason keep
\* which call's error the catch took).
sessionCheckError_Rethrown(existingSession, thrown) == thrown

sessionCheckError(existingSession, thrown) ==
    [status |-> "ok", contractAddress |-> existingSession, existed |-> TRUE,
     at |-> thrown.at, reason |-> thrown.reason]

\* What getOrCreateSession does with a createSession that threw.  With no
\* mapped channel the call is outside the try of the age check and the error
\* goes through the outer catch to the caller.  With a mapped channel the
\* call is `return await` inside that try, so its catch takes the error.
createSessionThrew(existingSession, thrown) ==
    IF existingSession # ZeroAddress
    THEN sessionCheckError(existingSession, thrown)
    ELSE thrown

\* The end of a getOrCreateSession call whose createSession threw.
createSessionFailed(u, at, reason) ==
    /\ res' = [res EXCEPT ![u] = createSessionThrew(lk[u], createSession_catch(at, reason))]
    /\ activeSessionsCache' =
          IF res'[u].status = "ok"
          THEN [activeSessionsCache EXCEPT ![u] = lk[u]]
          ELSE activeSessionsCache
    /\ pc' = [pc EXCEPT ![u] = "returned"]

sessionTooOld_AtDeadline(sessionAge) == sessionAge >= ONE_HOUR

sessionTooOld(sessionAge) == sessionAge > ONE_HOUR

\* getOrCreateSession up to its first answer: the pair's mapping is read.
getOrCreateSession_lookup(u) ==
    /\ pc[u] = "idle"
    /\ \E rpcOk \in BOOLEAN :
         IF rpcOk
         THEN LET existingSession == getSessionBetween(factory, sess, u, Peer(u), now) IN
              /\ lk' = [lk EXCEPT ![u] = existingSession.contractAddr]
              /\ pc' = [pc EXCEPT ![u] = IF existingSession.contractAddr # ZeroAddress
                                         THEN "goc_createdAt" ELSE "cs_estimateGas"]
              /\ UNCHANGED res
         ELSE /\ res' = [res EXCEPT ![u] = Threw("getSessionBetween", "rpc error")]
              /\ pc' = [pc EXCEPT ![u] = "returned"]
              /\ UNCHANGED lk
    /\ UNCHANGED <<chainVars, lastTx, activeSessionsCache, listing, scan, view>>

\* The age check of the existing channel; a failed read falls back to reuse.
getOrCreateSession_createdAt(u) ==
    /\ pc[u] = "goc_createdAt"
    /\ \E readOk \in BOOLEAN :
         LET sessionAge == now - sess[lk[u]].createdAt IN
         IF readOk /\ sessionTooOld(sessionAge)
         THEN /\ pc' = [pc EXCEPT ![u] = "cs_estimateGas"]
              /\ UNCHANGED <<res, activeSessionsCache>>
         ELSE /\ res' = [res EXCEPT ![u] =
                            IF readOk
                            THEN Returned(lk[u], TRUE)
                            ELSE sessionCheckError(lk[u], Threw("createdAt", "rpc error"))]
              /\ activeSessionsCache' =
                    IF res'[u].status = "ok"
                    THEN [activeSessionsCache EXCEPT ![u] = lk[u]]
                    ELSE activeSessionsCache
              /\ pc' = [pc EXCEPT ![u] = "returned"]
    /\ UNCHANGED <<chainVars, lastTx, lk, listing, scan, view>>

createSession_estimateGas(u) ==
    /\ pc[u] = "cs_estimateGas"
    /\ \E rpcOk \in BOOLEAN :
         LET r == IF rpcOk
                  THEN createChatSessionRevert(factory, sess, u, Peer(u), now)
                  ELSE "rpc error" IN
         IF r = "ok"
         THEN /\ pc' = [pc EXCEPT ![u] = "cs_tx"]
              /\ UNCHANGED <<res, activeSessionsCache>>
         ELSE createSessionFailed(u, "estimateGas", r)
    /\ UNCHANGED <<chainVars, lastTx, lk, listing, scan, view>>

\* The creation transaction is mined; a revert makes tx.wait() throw.
createSession_tx(u) ==
    /\ pc[u] = "cs_tx"
    /\ factory.totalSessions < MaxSessions
    /\ createChatSessionCall(u, Peer(u))
    /\ LET r == createChatSessionRevert(factory, sess, u, Peer(u), now) IN
         IF r = "ok"
         THEN /\ pc' = [pc EXCEPT ![u] = "cs_getSessionBetween"]
              /\ UNCHANGED <<res, activeSessionsCache>>
         ELSE createSessionFailed(u, "tx", r)
    /\ UNCHANGED <<now, ticks, chat, lastTx, lk, listing, scan, view>>

\* The address createSession returns is read back from the pair's mapping.
createSession_getSessionBetween(u) ==
    /\ pc[u] = "cs_getSessionBetween"
    /\ \E rpcOk \in BOOLEAN :
         LET sessionInfo == getSessionBetween(factory, sess, u, Peer(u), now) IN
         IF rpcOk /\ sessionInfo.contractAddr # ZeroAddress
         THEN /\ activeSessionsCache' =
                    [activeSessionsCache EXCEPT ![u] = sessionInfo.contractAddr]
              /\ res' = [res EXCEPT ![u] = Returned(sessionInfo.contractAddr, FALSE)]
              /\ pc' = [pc EXCEPT ![u] = "returned"]
         ELSE createSessionFailed(u, "readback",
                                  IF rpcOk THEN "Session contract not found after creation"
                                  ELSE "rpc error")
    /\ UNCHANGED <<chainVars, lastTx, lk, listing, scan, view>>

\* The caller (handleSendCommand) takes the result or the exception of
\* getOrCreateSession; the command's SessionManager ends with the command.
getOrCreateSession_return(u) ==
    /\ pc[u] = "returned"
    /\ pc' = [pc EXCEPT ![u] = "idle"]
    /\ res' = [res EXCEPT ![u] = NoResult]
    /\ lk' = [lk EXCEPT ![u] = ZeroAddress]
    /\ activeSessionsCache' = [activeSessionsCache EXCEPT ![u] = ZeroAddress]
    /\ UNCHANGED <<chainVars, lastTx, listing, scan, view>>

\* SessionManager.getMessages: the cached channel, else the pair's mapping.
getMessagesChannel(cached, f, ss, u, participant, t) ==
    IF cached # ZeroAddress THEN cached
    ELSE getSessionBetween(f, ss, u, participant, t).contractAddr

\* handleReplayCommand up to the merged list, with a SessionManager of its
\* own (an empty cache).  mainOk / sessOk: whether that source's fetch
\* returned (a throw leaves the source empty).
\* One try around both fetches: the first failure skips the second fetch.
replayFetch_OneTry(mainOk, sessOk, main, session) ==
    [standardMessages |-> IF mainOk THEN main ELSE <<>>,
     sessionMessages |-> IF mainOk /\ sessOk THEN session ELSE <<>>]

\* The two fetches of a listing, each in its own try whose catch logs and
\* leaves the source's list empty.
replayFetch(mainOk, sessOk, main, session) ==
    [standardMessages |-> IF mainOk THEN main ELSE <<>>,
     sessionMessages |-> IF sessOk THEN session ELSE <<>>]

handleReplayCommand(u) ==
    /\ pc[u] = "idle"
    /\ \E mainOk \in BOOLEAN, sessOk \in BOOLEAN :
       LET ids == chat.conversationMessages[generateConversationHash(u, Peer(u))]
           channel == getMessagesChannel(ZeroAddress, factory, sess, u, Peer(u), now)
           fetched == replayFetch(mainOk, sessOk,
                          getConversationMessages(chat, u, Peer(u), 1..Len(ids)),
                          IF channel # ZeroAddress
                          THEN sessionMessagesOf(sess, channel, 1..Len(sess[channel].events))
                          ELSE <<>>) IN
       listing' = [listing EXCEPT ![u] =
                      [all |-> mergeConversation(fetched.standardMessages,
                                                 fetched.sessionMessages),
                       complete |-> mainOk /\ sessOk,
                       standardFetched |-> mainOk,
                       sessionFetched |-> sessOk]]
    /\ activeSessionsCache' = [activeSessionsCache EXCEPT ![u] = ZeroAddress]
    /\ pc' = [pc EXCEPT ![u] = "rp_done"]
    /\ UNCHANGED <<chainVars, lastTx, lk, res, scan, view>>

\* The replay command ends; its list is gone with the process.
handleReplayCommand_return(u) ==
    /\ pc[u] = "rp_done"
    /\ pc' = [pc EXCEPT ![u] = "idle"]
    /\ listing' = [listing EXCEPT ![u] = NoListing]
    /\ UNCHANGED <<chainVars, lastTx, lk, res, activeSessionsCache, scan, view>>

\* ----------------------------------- SessionManager.getSessionMessagesWithLimit
maxBlocksToScan == 10000
chunkSize == 500
smallChunkSize == 100

\* A window start that ignores the caller's fromBlock.
Max_First(a, b) == a
Max(a, b) == IF a > b THEN a ELSE b
Min(a, b) == IF a < b THEN a ELSE b

\* String.prototype.includes on texts held as sequences of characters.
includes(text, needle) ==
    \E i \in 1..(Len(text) - Len(needle) + 1) :
        SubSeq(text, i, i + Len(needle) - 1) = needle

NeedleTooLarge == <<"t", "o", "o", " ", "l", "a", "r", "g", "e">>
NeedleRange == <<"r", "a", "n", "g", "e">>

\* Messages of the errors a provider rejects a log query with.
ErrorMessages ==
    { <<"q", "u", "e", "r", "y", " ">> \o NeedleTooLarge,
      <<"b", "l", "o", "c", "k", " ">> \o NeedleRange,
      <<"R", "a", "n", "g", "e", " ", "l", "i", "m", "i", "t">>,
      <<"t", "i", "m", "e", "o", "u", "t">> }

\* A log query is answered, or rejected with an Error.
QueryOutcomes ==
    {[ok |-> TRUE, message |-> <<>>]} \cup {[ok |-> FALSE, message |-> m] : m \in ErrorMessages}

\* What the catch of a chunk does with the query's error.
rangeErrorHandling_Rethrow(message) == "throw"

rangeErrorHandling(message) ==
    IF includes(message, NeedleTooLarge) \/ includes(message, NeedleRange) THEN "retry" ELSE "skip"

\* `const filter` is declared in the chunk's try block; the retry loop is in
\* its catch block, where the name is not bound: evaluating the argument
\* list of the sub-chunk's queryFilter throws a ReferenceError.
filterInScope(blockOfCode) == blockOfCode = "try"

\* queryFilter(filter, fromBlock, toBlock) when the provider answers.
queryFilter(log, fromBlock, toBlock) ==
    SelectSeq(log, LAMBDA e : fromBlock <= e.blockNumber /\ e.blockNumber <= toBlock)

\* events.forEach(push): the records of the events, in log order.
pushed(sessionAddress, events) ==
    [i \in 1..Len(events) |-> sessionRecord(sessionAddress, events[i].args)]

Elems(s) == {s[i] : i \in 1..Len(s)}

\* The start blocks of the chunk loop over [safeStartBlock, currentBlock].
ChunkStarts(safeStartBlock, currentBlock) ==
    {b \in safeStartBlock..currentBlock : (b - safeStartBlock) % chunkSize = 0}

NoBlock == 0 - 1

\* How a call ends for its caller: with a value, or with an exception.
Return(value) == [kind |-> "returned", value |-> value]
Throw(message) == [kind |-> "threw", value |-> message]

outerCatch_Rethrow(message) == Throw(message)

\* The catch around the whole of getSessionMessagesWithLimit.
outerCatch(message) == Return(<<>>)

\* The scan's state once the call has ended with `end`.
Ended(sc, end) ==
    [sc EXCEPT !.pc = "done", !.outcome = end.kind,
               !.returned = IF end.kind = "returned" THEN end.value ELSE <<>>]

getSessionMessagesWithLimit_getBlockNumber ==
    /\ scan.pc = "start"
    /\ \E rpcOk \in BOOLEAN :
         IF rpcOk
         THEN scan' = [scan EXCEPT !.pc = "chunks",
                                   !.currentBlock = scan.head,
                                   !.safeStartBlock =
                                       Max(scan.head - maxBlocksToScan, scan.fromBlock),
                                   !.block = Max(scan.head - maxBlocksToScan, scan.fromBlock)]
         ELSE scan' = Ended(scan, outerCatch("getBlockNumber failed"))
    /\ UNCHANGED <<chainVars, lastTx, clientVars, view>>

\* One turn of the chunk loop: the 500-block query and, when it is rejected,
\* the catch up to the retry loop.
getSessionMessagesWithLimit_chunk ==
    /\ scan.pc = "chunks"
    /\ scan.block <= scan.currentBlock
    /\ LET toBlock == Min(scan.block + chunkSize - 1, scan.currentBlock)
           events == queryFilter(scan.log, scan.block, toBlock) IN
       \E outcome \in QueryOutcomes :
         IF outcome.ok /\ filterInScope("try")
         THEN scan' = [scan EXCEPT !.messages = @ \o pushed(scan.sessionAddress, events),
                                   !.queried = @ \cup {scan.block},
                                   !.expected = @ \cup Elems(pushed(scan.sessionAddress, events)),
                                   !.block = @ + chunkSize]
         ELSE LET handling == rangeErrorHandling(outcome.message) IN
              IF handling = "retry"
              THEN scan' = [scan EXCEPT !.pc = "retry",
                                        !.queried = @ \cup {scan.block},
                                        !.firstFailed = IF @ = NoBlock THEN scan.block ELSE @,
                                        !.toBlock = toBlock,
                                        !.smallBlock = scan.block]
              ELSE IF handling = "skip"
              THEN scan' = [scan EXCEPT !.queried = @ \cup {scan.block},
                                        !.firstFailed = IF @ = NoBlock THEN scan.block ELSE @,
                                        !.block = @ + chunkSize]
              ELSE scan' = Ended([scan EXCEPT
                                        !.queried = @ \cup {scan.block},
                                        !.firstFailed = IF @ = NoBlock THEN scan.block ELSE @],
                                    outerCatch("error in the chunk's catch"))
    /\ UNCHANGED <<chainVars, lastTx, clientVars, view>>

\* One turn of the retry loop; after the last one the chunk loop continues.
\* rpcOk: whether the provider would answer this sub-chunk's query.
getSessionMessagesWithLimit_subChunk ==
    /\ scan.pc = "retry"
    /\ LET smallToBlock == Min(scan.smallBlock + (smallChunkSize - 1), scan.toBlock)
           smallEvents == queryFilter(scan.log, scan.smallBlock, smallToBlock)
           last == scan.smallBlock + smallChunkSize > scan.toBlock IN
       \E rpcOk \in BOOLEAN :
         scan' = [scan EXCEPT
                    !.messages = IF filterInScope("catch") /\ rpcOk
                                 THEN @ \o pushed(scan.sessionAddress, smallEvents)
                                 ELSE @,
                    !.retryExpected = IF rpcOk
                                      THEN @ \cup Elems(pushed(scan.sessionAddress, smallEvents))
                                      ELSE @,
                    !.smallBlock = @ + smallChunkSize,
                    !.pc = IF last THEN "chunks" ELSE "retry",
                    !.block = IF last THEN @ + chunkSize ELSE @]
    /\ UNCHANGED <<chainVars, lastTx, clientVars, view>>

\* The loop is over: the collected messages are sorted and returned.
getSessionMessagesWithLimit_return ==
    /\ scan.pc = "chunks"
    /\ scan.block > scan.currentBlock
    /\ scan' = Ended(scan, Return(sortByTimestamp(scan.messages)))
    /\ UNCHANGED <<chainVars, lastTx, clientVars, view>>

\* -------------------------------------------------------- EncryptionService
\* secp256k1 is stood for by the multiplicative group modulo GroupPrime with
\* generator GroupGenerator: a private key is an exponent, its public point
\* the generator to that power, and the ECDH secret of a private key and a
\* point is the point to the power of the key.
GroupPrime == 23
GroupGenerator == 5

RECURSIVE ModExp(_, _, _)
ModExp(base, e, p) == IF e = 0 THEN 1 ELSE (base * ModExp(base, e - 1, p)) % p

\* The private exponent of each address (0 is no valid key).
ScalarOf(a) == CASE a = 1 -> 3 [] a = 2 -> 7 [] OTHER -> 5

ValidScalars == 1..(GroupPrime - 2)

\* wallet.privateKey: the hex text with its "0x".
PrivateKeyOf(a) == [has0x |-> TRUE, scalar |-> ScalarOf(a)]

\* A public key text: whether it starts with "0x", the number of hex digits
\* after that, whether those start with "04", and the point they encode.
PublicKeyText(has0x, length, startsWith04, point) ==
    [has0x |-> has0x, length |-> length, startsWith04 |-> startsWith04, point |-> point]

\* wallet.signingKey.publicKey is "0x04" and the 128 digits of X and Y;
\* slice(4) leaves the 128 digits.
getPublicKeyFromPrivate(privateKeyHex) ==
    IF privateKeyHex.scalar \notin ValidScalars
    THEN Throw("invalid private key")
    ELSE Return(PublicKeyText(FALSE, 128, FALSE,
                              ModExp(GroupGenerator, privateKeyHex.scalar, GroupPrime)))

\* Which public key texts generateSharedSecret takes.
acceptedEncoding_AnyWith04(publicKeyHex) ==
    publicKeyHex.length = 128 \/ publicKeyHex.startsWith04

acceptedEncoding(publicKeyHex) ==
    \/ publicKeyHex.length = 128
    \/ publicKeyHex.length = 130 /\ publicKeyHex.startsWith04

ecdhComputeSecret_OwnPoint(scalar, point) == ModExp(GroupGenerator, scalar * scalar, GroupPrime)

ecdhComputeSecret(scalar, point) == ModExp(point, scalar, GroupPrime)

generateSharedSecret(privateKeyHex, publicKeyHex) ==
    IF privateKeyHex.scalar \notin ValidScalars THEN Throw("invalid private key")
    ELSE IF ~acceptedEncoding(publicKeyHex) THEN Throw("Invalid public key format")
    ELSE IF publicKeyHex.point = 0 THEN Throw("invalid public key")
    ELSE Return(<<"sha256", ecdhComputeSecret(privateKeyHex.scalar, publicKeyHex.point)>>)

\* The addresses of the testingKeys table; each entry is that address's own
\* private key, written without "0x".
TestingKeyAddresses == {1, 2}

getRecipientPrivateKeyForTesting_FirstEntry(recipientAddress) ==
    IF recipientAddress \in TestingKeyAddresses
    THEN Return([has0x |-> FALSE, scalar |-> ScalarOf(1)])
    ELSE Throw("Testing private key not found")

getRecipientPrivateKeyForTesting(recipientAddress) ==
    IF recipientAddress \in TestingKeyAddresses
    THEN Return([has0x |-> FALSE, scalar |-> ScalarOf(recipientAddress)])
    ELSE Throw("Testing private key not found")

\* An envelope text: whether JSON.parse takes it, its length, the fields the
\* parsed object holds, under which key the ciphertext was sealed, whether
\* ciphertext and nonce are as sealed, and the sealed plaintext.  The JSON
\* that encryptForRecipient writes is longer than 100 characters.
Envelope(parses, length, hasCiphertext, hasNonce, algorithm, key, intact, plaintext) ==
    [parses |-> parses, length |-> length, hasCiphertext |-> hasCiphertext,
     hasNonce |-> hasNonce, algorithm |-> algorithm, key |-> key, intact |-> intact,
     plaintext |-> plaintext]

encryptForRecipient(message, senderPrivateKey, recipientAddress) ==
    LET recipientPrivateKey == getRecipientPrivateKeyForTesting(recipientAddress) IN
    IF recipientPrivateKey.kind = "threw" THEN recipientPrivateKey
    ELSE LET recipientPublicKey == getPublicKeyFromPrivate(recipientPrivateKey.value) IN
    IF recipientPublicKey.kind = "threw" THEN recipientPublicKey
    ELSE LET sharedSecret == generateSharedSecret(senderPrivateKey, recipientPublicKey.value) IN
    IF sharedSecret.kind = "threw" THEN sharedSecret
    ELSE Return(Envelope(TRUE, 200, TRUE, TRUE, "XChaCha20-Poly1305",
                         sharedSecret.value, TRUE, message))

\* The catch around JSON.parse and the check of the two fields.
jsonErrorHandling(encryptedData) ==
    IF encryptedData.length < 100
    THEN Return("[Corrupted message]")
    ELSE Return("[Legacy message format - please resend with current version]")

\* crypto_aead_xchacha20poly1305_ietf_decrypt: the tag verifies only under
\* the sealing key and with ciphertext and nonce as they were sealed.
aeadDecrypt_Unauthenticated(encryptedData, key) == Return(encryptedData.plaintext)

aeadDecrypt(encryptedData, key) ==
    IF encryptedData.key = key /\ encryptedData.intact
    THEN Return(encryptedData.plaintext)
    ELSE Throw("ciphertext cannot be decrypted using that key")

\* The body of the outer try of decryptFromSender.
decryptFromSender_try(encryptedData, recipientPrivateKey, senderAddress) ==
    IF ~encryptedData.parses \/ ~encryptedData.hasCiphertext \/ ~encryptedData.hasNonce
    THEN jsonErrorHandling(encryptedData)
    ELSE IF encryptedData.algorithm # "XChaCha20-Poly1305"
    THEN Return("[Legacy message format - please resend with current version]")
    ELSE LET senderPrivateKey == getRecipientPrivateKeyForTesting(senderAddress) IN
    IF senderPrivateKey.kind = "threw" THEN senderPrivateKey
    ELSE LET senderPublicKey == getPublicKeyFromPrivate(senderPrivateKey.value) IN
    IF senderPublicKey.kind = "threw" THEN senderPublicKey
    ELSE LET sharedSecret == generateSharedSecret(recipientPrivateKey, senderPublicKey.value) IN
    IF sharedSecret.kind = "threw" THEN sharedSecret
    ELSE LET decryptedMessage == aeadDecrypt(encryptedData, sharedSecret.value) IN
    IF decryptedMessage.kind = "threw" THEN decryptedMessage
    ELSE IF decryptedMessage.value = "" THEN Throw("Decryption resulted in empty message")
    ELSE decryptedMessage

\* The outer catch of decryptFromSender.
decryptCatch_Rethrow(message) == Throw(message)

decryptCatch(message) == Return("[Message could not be decrypted]")

decryptFromSender_result(encryptedData, recipientPrivateKey, senderAddress) ==
    LET body == decryptFromSender_try(encryptedData, recipientPrivateKey, senderAddress) IN
    IF body.kind = "threw" THEN decryptCatch(body.value) ELSE body

decryptFromSender(encryptedData, recipientPrivateKey, senderAddress) ==
    decryptFromSender_result(encryptedData, recipientPrivateKey, senderAddress).value

\* ------------------------------------------- handleReplayCommand, the listing
handleReplayCommand_merge ==
    /\ view.pc = "merge"
    /\ view' = [view EXCEPT !.pc = "merged",
                            !.allMessages = mergeConversation(view.standardMessages,
                                                              view.sessionMessages)]
    /\ UNCHANGED <<chainVars, lastTx, clientVars, scan>>

isExpired_AtExpiry(message, currentTime) ==
    message.expiry # 0 /\ message.expiry > 0 /\ currentTime >= message.expiry

isExpired(message, currentTime) ==
    message.expiry # 0 /\ message.expiry > 0 /\ currentTime > message.expiry

\* One turn of the render loop.
handleReplayCommand_render ==
    /\ view.pc = "render"
    /\ view.index < Len(view.allMessages)
    /\ LET message == view.allMessages[view.index + 1] IN
       IF isExpired(message, view.currentTime)
       THEN view' = [view EXCEPT
                       !.index = @ + 1,
                       !.shown = Append(@, [position |-> view.index + 1,
                                            label |-> "EXPIRED",
                                            timestamp |-> message.timestamp,
                                            content |-> "[Content hidden - message has expired]"])]
       ELSE LET decryptedContent ==
                    decryptFromSender_result(message.cid, PrivateKeyOf(view.viewer),
                                             message.from) IN
            IF decryptedContent.kind = "threw"
            THEN view' = [view EXCEPT
                            !.index = @ + 1,
                            !.decryptCalls = Append(@, view.index + 1),
                            !.failedCount = @ + 1,
                            !.shown = Append(@, [position |-> view.index + 1,
                                                 label |-> "Failed to decrypt",
                                                 timestamp |-> message.timestamp,
                                                 content |-> decryptedContent.value])]
            ELSE view' = [view EXCEPT
                            !.index = @ + 1,
                            !.decryptCalls = Append(@, view.index + 1),
                            !.displayedCount = @ + 1,
                            !.shown = Append(@, [position |-> view.index + 1,
                                                 label |-> IF message.from = view.viewer
                                                           THEN "You" ELSE "Them",
                                                 timestamp |-> message.timestamp,
                                                 content |-> decryptedContent.value])]
    /\ UNCHANGED <<chainVars, lastTx, clientVars, scan>>

\* After the loop: the summary.
handleReplayCommand_summary ==
    /\ view.pc = "render"
    /\ view.index = Len(view.allMessages)
    /\ view' = [view EXCEPT !.pc = "summary"]
    /\ UNCHANGED <<chainVars, lastTx, clientVars, scan>>

\* --------------------------------------------------------- specifications
ScanOff == [pc |-> "off"]
ViewOff == [pc |-> "off"]

InitLedger ==
    /\ now = 0
    /\ ticks = 0
    /\ sess = <<>>
    /\ factory = [sessionContracts |-> [i \in IdSpace |-> ZeroAddress],
                  userSessions |-> [u \in Users |-> <<>>],
                  participantPairToSession |-> [u \in Users |-> [v \in Users |-> 0]],
                  totalSessions |-> 0,
                  activeSessions |-> 0]
    /\ chat = [messageCounter |-> 0,
               messages |-> <<>>,
               userMessages |-> [u \in Users |-> <<>>],
               conversationMessages |-> [h \in ConversationHashes |-> <<>>],
               totalMessages |-> 0]
    /\ pc = [u \in Clients |-> "idle"]
    /\ lk = [u \in Clients |-> ZeroAddress]
    /\ res = [u \in Clients |-> NoResult]
    /\ activeSessionsCache = [u \in Clients |-> ZeroAddress]
    /\ listing = [u \in Clients |-> NoListing]

\* Spec: two SessionManager clients (users 1 and 2, each other's peer) on
\* the factory and its sessions; the other calls are the peer's and an
\* outsider's transactions.
Init ==
    /\ InitLedger
    /\ lastTx = Unobserved
    /\ scan = ScanOff
    /\ view = ViewOff

Next ==
    \/ \E u \in Clients : getOrCreateSession_lookup(u)
    \/ \E u \in Clients : getOrCreateSession_createdAt(u)
    \/ \E u \in Clients : createSession_estimateGas(u)
    \/ \E u \in Clients : createSession_tx(u)
    \/ \E u \in Clients : createSession_getSessionBetween(u)
    \/ \E u \in Clients : getOrCreateSession_return(u)
    \/ \E sender \in Clients, a \in SessionAddrs : closeSession(sender, a)
    \/ \E sender \in Users \ Clients, a \in SessionAddrs : forceExpireSession(sender, a)
    \/ \E sender \in Users \ Clients, id \in 1..MaxSessions :
         cleanupExpiredSessions(sender, <<id>>)
    \/ \E d \in TickSteps : Tick(d)

Spec == Init /\ [][Next]_vars

\* ChainSpec: the factory and its sessions under creations, closes, forced
\* expiries and cleanups in every order.  Messages here are user 1's,
\* well-formed and without expiry; SessionSpec has every caller and every
\* kind of input on one session and records each transaction's outcome.
InitChain ==
    /\ InitLedger
    /\ lastTx = Unobserved
    /\ scan = ScanOff
    /\ view = ViewOff

NextChain ==
    \/ \E sender \in Clients, participant \in Clients \cup {ZeroAddress} :
         createChatSession(sender, participant)
    \/ \E a \in SessionAddrs : ChatSession_sendMessage(1, a, "env", "text", 0)
    \/ \E sender \in Clients, a \in SessionAddrs : closeSession(sender, a)
    \/ \E sender \in Users \ Clients, a \in SessionAddrs : forceExpireSession(sender, a)
    \/ \E sender \in Users \ Clients, id \in 1..MaxSessions :
         cleanupExpiredSessions(sender, <<id>>)
    \/ \E d \in TickSteps : Tick(d)

ChainSpec == InitChain /\ [][NextChain]_vars

\* SessionSpec: one ChatSession, as constructed by createChatSession(1, 2)
\* at time 0, under every caller's calls with every kind of input.
InitSession ==
    /\ InitLedger
    /\ lastTx = [op |-> "none", sender |-> 0, reason |-> "none"]
    /\ scan = ScanOff
    /\ view = ViewOff

NextSession ==
    \/ /\ factory.totalSessions = 0
       /\ createChatSession(1, 2)
    \/ \E sender \in Users, a \in SessionAddrs, in \in SendInputs, e \in ExpiryInputs(now) :
         ChatSession_sendMessage(sender, a, in[1], in[2], e)
    \/ \E sender \in Users, a \in SessionAddrs : closeSession(sender, a)
    \/ \E sender \in Users, a \in SessionAddrs : forceExpireSession(sender, a)
    \/ \E d \in TickSteps : Tick(d)

SessionSpec == InitSession /\ [][NextSession]_vars

\* ScanSpec: one getSessionMessagesWithLimit call on a session whose
\* MessageSent log is drawn from ScanLogs (one event per chosen block, none
\* above the chain head), with the head and the fromBlock argument drawn
\* from small sets; every query is answered or rejected with one of
\* ErrorMessages.
ScanEventBlocks == {120, 480, 730, 1100}
ScanHeads == {0, 499, 1100, 10700}
ScanFromBlocks == {0, 600}

\* The log with one event in each block of bs, in block order.
RECURSIVE LogOf(_, _)
LogOf(bs, n) ==
    IF bs = {} THEN <<>>
    ELSE LET b == CHOOSE x \in bs : \A y \in bs : x <= y IN
         <<[blockNumber |-> b,
            args |-> [from |-> 1, cid |-> "env", timestamp |-> b, expiry |-> 0,
                      messageIndex |-> n]]>> \o LogOf(bs \ {b}, n + 1)

InitScan ==
    /\ InitLedger
    /\ lastTx = Unobserved
    /\ view = ViewOff
    /\ \E head \in ScanHeads, fromBlock \in ScanFromBlocks :
       \E bs \in {x \in SUBSET {b \in ScanEventBlocks : b <= head} :
                     Cardinality(x) <= MaxScanEvents} :
         scan = [pc |-> "start", sessionAddress |-> 1, log |-> LogOf(bs, 0),
                 head |-> head, fromBlock |-> fromBlock,
                 currentBlock |-> NoBlock, safeStartBlock |-> NoBlock,
                 block |-> NoBlock, toBlock |-> NoBlock, smallBlock |-> NoBlock,
                 messages |-> <<>>, returned |-> <<>>, outcome |-> "none",
                 queried |-> {}, firstFailed |-> NoBlock, expected |-> {}, retryExpected |-> {}]

NextScan ==
    \/ getSessionMessagesWithLimit_getBlockNumber
    \/ getSessionMessagesWithLimit_chunk
    \/ getSessionMessagesWithLimit_subChunk
    \/ getSessionMessagesWithLimit_return

ScanSpec == InitScan /\ [][NextScan]_vars

\* ScanFairSpec: the scan of ScanSpec, in which every awaited call is
\* answered or rejected, so the function always takes its next step.
ScanFairSpec == InitScan /\ [][NextScan]_vars /\ WF_vars(NextScan)

\* MergeSpec: the merge of a listing on inputs drawn from all sequences of
\* at most MaxMergeMain persistent records and MaxMergeSession session
\* records with timestamps in MergeTimestamps, in any order.
MergeTimestamps == 1..5

SeqsUpTo(S, n) == UNION {[1..k -> S] : k \in 0..n}

\* The records getConversationMessages builds from stored messages with the
\* timestamps ts (ids 0, 1, ...).
MainInput(ts) ==
    LET c == [messages |-> [i \in 1..Len(ts) |->
                  [from |-> 2, to |-> 1, cid |-> "env", timestamp |-> ts[i],
                   expiry |-> 0]]] IN
    [i \in 1..Len(ts) |-> mainRecord(c, i - 1)]

\* The records the scan builds from events with the timestamps ts.
SessionInput(ts) ==
    [i \in 1..Len(ts) |->
        sessionRecord(1, [from |-> 2, cid |-> "env", timestamp |-> ts[i],
                          expiry |-> 0, messageIndex |-> i - 1])]

InitMerge ==
    /\ InitLedger
    /\ lastTx = Unobserved
    /\ scan = ScanOff
    /\ \E ts1 \in SeqsUpTo(MergeTimestamps, MaxMergeMain),
          ts2 \in SeqsUpTo(MergeTimestamps, MaxMergeSession) :
         view = [pc |-> "merge", standardMessages |-> MainInput(ts1),
                 sessionMessages |-> SessionInput(ts2), allMessages |-> <<>>]

NextMerge == handleReplayCommand_merge

MergeSpec == InitMerge /\ [][NextMerge]_vars

\* RenderSpec: the render loop of viewer 1 at time RenderTime over every
\* list of at most MaxRender messages exchanged with the peer, in either
\* direction, each with one of the expiries RenderExpiries and one of the
\* envelopes RenderEnvelopes of its sender.
RenderTime == 1000
RenderExpiries == {0, RenderTime - 100, RenderTime, RenderTime + 100}
RenderEnvelopes(from) ==
    {encryptForRecipient("hello", PrivateKeyOf(from), Peer(from)).value,
     Envelope(FALSE, 12, FALSE, FALSE, "", <<"sha256", 0>>, TRUE, "")}

RenderMessagesFrom(from) ==
    {[messageId |-> 0, from |-> from, to |-> Peer(from), cid |-> e,
      timestamp |-> RenderTime - 200,
      expiry |-> x, source |-> "main", sessionAddress |-> ZeroAddress] :
        e \in RenderEnvelopes(from), x \in RenderExpiries}

RenderMessages == UNION {RenderMessagesFrom(from) : from \in Clients}

InitRender ==
    /\ InitLedger
    /\ lastTx = Unobserved
    /\ scan = ScanOff
    /\ \E k \in 1..MaxRender : \E ms \in [1..k -> RenderMessages] :
         view = [pc |-> "render", viewer |-> 1, allMessages |-> ms,
                 currentTime |-> RenderTime, index |-> 0, displayedCount |-> 0, failedCount |-> 0,
                 decryptCalls |-> <<>>, shown |-> <<>>]

NextRender ==
    \/ handleReplayCommand_render
    \/ handleReplayCommand_summary

RenderSpec == InitRender /\ [][NextRender]_vars

\* CryptoSpec: one call of EncryptionService on any of the private key texts,
\* public key texts, plaintexts, addresses and envelope texts below, and after
\* an encryption, the decryption of the envelope it returned.
Plaintexts == {"", "hello", "gm"}

PrivateKeyTexts ==
    {[has0x |-> h, scalar |-> ScalarOf(a)] : h \in BOOLEAN, a \in Users}
        \cup {[has0x |-> FALSE, scalar |-> 0]}

PublicPoints == {ModExp(GroupGenerator, ScalarOf(a), GroupPrime) : a \in Users} \cup {0}

PublicKeyTexts ==
    {PublicKeyText(h, l, s, pt) :
        h \in BOOLEAN, l \in {64, 66, 128, 130}, s \in BOOLEAN, pt \in PublicPoints}

DerivedKeys ==
    {<<"sha256", ecdhComputeSecret(ScalarOf(a), ModExp(GroupGenerator, ScalarOf(b), GroupPrime))>> :
        a \in Users, b \in Users}

EnvelopeTexts ==
    {e \in {Envelope(parses, length, hasCiphertext, hasNonce, algorithm, key, intact, "hello") :
                parses \in BOOLEAN, length \in {12, 200}, hasCiphertext \in BOOLEAN,
                hasNonce \in BOOLEAN, algorithm \in {"XChaCha20-Poly1305", "AES-256-GCM"},
                key \in DerivedKeys, intact \in BOOLEAN} :
        ~e.parses => ~e.hasCiphertext /\ ~e.hasNonce /\ ~e.intact}

NotSealed ==
    [known |-> FALSE, message |-> "", senderPrivateKey |-> [has0x |-> FALSE, scalar |-> 0],
     recipientAddress |-> ZeroAddress]

EncryptionService_encryptForRecipient(message, senderPrivateKey, recipientAddress) ==
    /\ view.pc = "crypto"
    /\ view.op = "none"
    /\ view' = [pc |-> "crypto", op |-> "encrypt", message |-> message,
                senderPrivateKey |-> senderPrivateKey,
                recipientAddress |-> recipientAddress,
                out |-> encryptForRecipient(message, senderPrivateKey, recipientAddress)]
    /\ UNCHANGED <<chainVars, lastTx, clientVars, scan>>

\* Decryption of any envelope text.
EncryptionService_decryptFromSender(encryptedData, recipientPrivateKey, senderAddress) ==
    /\ view.pc = "crypto"
    /\ view.op = "none"
    /\ view' = [pc |-> "crypto", op |-> "decrypt", encryptedData |-> encryptedData,
                recipientPrivateKey |-> recipientPrivateKey,
                senderAddress |-> senderAddress, sealed |-> NotSealed,
                out |-> decryptFromSender_result(encryptedData, recipientPrivateKey,
                                                 senderAddress)]
    /\ UNCHANGED <<chainVars, lastTx, clientVars, scan>>

\* Decryption of the envelope that the preceding encryption returned.
EncryptionService_decryptSealed(recipientPrivateKey, senderAddress) ==
    /\ view.pc = "crypto"
    /\ view.op = "encrypt"
    /\ view.out.kind = "returned"
    /\ view' = [pc |-> "crypto", op |-> "decrypt", encryptedData |-> view.out.value,
                recipientPrivateKey |-> recipientPrivateKey,
                senderAddress |-> senderAddress,
                sealed |-> [known |-> TRUE, message |-> view.message,
                            senderPrivateKey |-> view.senderPrivateKey,
                            recipientAddress |-> view.recipientAddress],
                out |-> decryptFromSender_result(view.out.value, recipientPrivateKey,
                                                 senderAddress)]
    /\ UNCHANGED <<chainVars, lastTx, clientVars, scan>>

EncryptionService_generateSharedSecret(privateKeyHex, publicKeyHex) ==
    /\ view.pc = "crypto"
    /\ view.op = "none"
    /\ view' = [pc |-> "crypto", op |-> "derive", privateKeyHex |-> privateKeyHex,
                publicKeyHex |-> publicKeyHex,
                out |-> generateSharedSecret(privateKeyHex, publicKeyHex)]
    /\ UNCHANGED <<chainVars, lastTx, clientVars, scan>>

InitCrypto ==
    /\ InitLedger
    /\ lastTx = Unobserved
    /\ scan = ScanOff
    /\ view = [pc |-> "crypto", op |-> "none"]

NextCrypto ==
    \/ \E message \in Plaintexts, senderPrivateKey \in PrivateKeyTexts,
          recipientAddress \in Users :
         EncryptionService_encryptForRecipient(message, senderPrivateKey, recipientAddress)
    \/ \E encryptedData \in EnvelopeTexts, recipientPrivateKey \in PrivateKeyTexts,
          senderAddress \in Users :
         EncryptionService_decryptFromSender(encryptedData, recipientPrivateKey,
                                             senderAddress)
    \/ \E recipientPrivateKey \in PrivateKeyTexts, senderAddress \in Users :
         EncryptionService_decryptSealed(recipientPrivateKey, senderAddress)
    \/ \E privateKeyHex \in PrivateKeyTexts, publicKeyHex \in PublicKeyTexts :
         EncryptionService_generateSharedSecret(privateKeyHex, publicKeyHex)

CryptoSpec == InitCrypto /\ [][NextCrypto]_vars

\* MessageSpec: the persistent ledger under sends of the two clients to each
\* other, to third parties and to no one, the passing of time, and a client
\* reading its conversation with its peer while any of the record fetches
\* may fail.

\* BlockchainService.getConversationMessages of client u: callsAnswered says
\* whether the contract answered generateConversationHash and
\* getConversationMessages, fetched which getMessage calls (by position).
BlockchainService_getConversationMessages(u, otherAddress, callsAnswered, fetched) ==
    /\ view' = [pc |-> "fetched", user |-> u, otherAddress |-> otherAddress,
                fetched |-> fetched,
                out |-> IF callsAnswered
                        THEN Return(getConversationMessages(chat, u, otherAddress, fetched))
                        ELSE Throw("could not coalesce error")]
    /\ UNCHANGED <<chainVars, lastTx, clientVars, scan>>

InitMessage ==
    /\ InitLedger
    /\ lastTx = Unobserved
    /\ scan = ScanOff
    /\ view = ViewOff

NextMessage ==
    \/ \E sender \in Clients, to \in Users \cup {ZeroAddress} :
         /\ chat.messageCounter < MaxConversation
         /\ ChatContract_sendMessageTx(sender, to, "env", "text", 0)
    \/ Tick(1)
    \/ \E u \in Clients, callsAnswered \in BOOLEAN :
         \E fetched \in SUBSET (1..Len(chat.conversationMessages[
                                         generateConversationHash(u, Peer(u))])) :
           BlockchainService_getConversationMessages(u, Peer(u), callsAnswered, fetched)

MessageSpec == InitMessage /\ [][NextMessage]_vars

\* ExpirySpec: client 1 submitting messages to client 2 on the persistent
\* ledger and in one session, with every kind of expiry, as time passes.
MainExpiryInputs(t) == ExpiryInputs(t) \cup {t + ONE_YEAR, t + ONE_YEAR + 1}

InitExpiry ==
    /\ InitLedger
    /\ lastTx = [op |-> "none", sender |-> 0, reason |-> "none"]
    /\ scan = ScanOff
    /\ view = ViewOff

NextExpiry ==
    \/ \E e \in MainExpiryInputs(now) :
         /\ chat.messageCounter < MaxConversation
         /\ ChatContract_sendMessageTx(1, 2, "env", "text", e)
    \/ /\ factory.totalSessions = 0
       /\ createChatSession(1, 2)
    \/ \E a \in SessionAddrs, e \in ExpiryInputs(now) :
         ChatSession_sendMessage(1, a, "env", "text", e)
    \/ Tick(1)

ExpirySpec == InitExpiry /\ [][NextExpiry]_vars

\* ManagerSpec: one SessionManager of client 1 that lives through several
\* calls (its activeSessions map is kept from call to call), while its peer
\* creates, closes and writes to channels and time passes.

\* The caller takes the result of getOrCreateSession; the SessionManager and
\* its activeSessions map stay.
getOrCreateSession_returnKeepingManager(u) ==
    /\ pc[u] = "returned"
    /\ pc' = [pc EXCEPT ![u] = "idle"]
    /\ res' = [res EXCEPT ![u] = NoResult]
    /\ lk' = [lk EXCEPT ![u] = ZeroAddress]
    /\ UNCHANGED <<chainVars, lastTx, activeSessionsCache, listing, scan, view>>

\* SessionManager.getMessages(participant): the channel it reads and what it
\* returns; a failed getSessionBetween is rethrown.
SessionManager_getMessages(u) ==
    /\ pc[u] = "idle"
    /\ view = ViewOff
    /\ \E rpcOk \in BOOLEAN :
         LET cached == activeSessionsCache[u]
             channel == getMessagesChannel(cached, factory, sess, u, Peer(u), now) IN
         view' = [pc |-> "getMessages", user |-> u, cached |-> cached,
                  channel |-> IF cached = ZeroAddress /\ ~rpcOk THEN ZeroAddress ELSE channel,
                  out |-> IF cached = ZeroAddress /\ ~rpcOk THEN Throw("rpc error")
                          ELSE IF channel = ZeroAddress THEN Return(<<>>)
                          ELSE Return(sessionMessagesOf(sess, channel,
                                                        1..Len(sess[channel].events)))]
    /\ UNCHANGED <<chainVars, lastTx, clientVars, scan>>

\* The caller takes what getMessages returned or threw.
SessionManager_getMessages_return ==
    /\ view.pc = "getMessages"
    /\ view' = ViewOff
    /\ UNCHANGED <<chainVars, lastTx, clientVars, scan>>

InitManager ==
    /\ InitLedger
    /\ lastTx = Unobserved
    /\ scan = ScanOff
    /\ view = ViewOff

NextManager ==
    \/ getOrCreateSession_lookup(1)
    \/ getOrCreateSession_createdAt(1)
    \/ createSession_estimateGas(1)
    \/ createSession_tx(1)
    \/ createSession_getSessionBetween(1)
    \/ getOrCreateSession_returnKeepingManager(1)
    \/ SessionManager_getMessages(1)
    \/ SessionManager_getMessages_return
    \/ createChatSession(2, 1)
    \/ \E a \in SessionAddrs : closeSession(2, a)
    \/ \E a \in SessionAddrs : ChatSession_sendMessage(2, a, "env", "text", 0)
    \/ Tick(SESSION_DURATION)

ManagerSpec == InitManager /\ [][NextManager]_vars

\* ReplaySpec: the pair's two ledgers under sends, creations, closes and the
\* passing of time, and client 1 listing its conversation with client 2.
InitReplay ==
    /\ InitLedger
    /\ lastTx = Unobserved
    /\ scan = ScanOff
    /\ view = ViewOff

NextReplay ==
    \/ createChatSession(1, 2)
    \/ \E a \in SessionAddrs : ChatSession_sendMessage(1, a, "env", "text", 0)
    \/ ChatContract_sendMessage(2, 1, "env", "text", 0)
    \/ \E a \in SessionAddrs : closeSession(2, a)
    \/ Tick(SESSION_DURATION)
    \/ handleReplayCommand(1)
    \/ handleReplayCommand_return(1)

ReplaySpec == InitReplay /\ [][NextReplay]_vars

\* ------------------------------------------------------------------ claims
\* The channel the pair's mapping points at (the zero address when none).

\* LifecycleSpec: the ledger alone, every transaction observed. Users 1 and 3
\* open channels with user 2, so each of them is a participant of its own
\* channels and an outsider to the other's; both send every kind of
\* transaction to every channel and to the factory's cleanup.
Callers == {1, 3}
CleanupInputs == {<<1>>, <<2>>, <<1, 2>>}

InitLifecycle ==
    /\ InitLedger
    /\ lastTx = [op |-> "none", sender |-> 0, reason |-> "none"]
    /\ scan = ScanOff
    /\ view = ViewOff

NextLifecycle ==
    \/ \E sender \in Callers : createChatSession(sender, 2)
    \/ /\ TotalEvents(sess) < MaxLifecycleEvents
       /\ \E sender \in Callers, a \in SessionAddrs :
            ChatSession_sendMessage(sender, a, "env", "text", 0)
    \/ \E sender \in Callers, a \in SessionAddrs : closeSession(sender, a)
    \/ \E sender \in Callers, a \in SessionAddrs : forceExpireSession(sender, a)
    \/ \E sender \in Callers, sessionIds \in CleanupInputs :
         cleanupExpiredSessions(sender, sessionIds)
    \/ Tick(SESSION_DURATION)

LifecycleSpec == InitLifecycle /\ [][NextLifecycle]_vars

\* LimitSpec: user 1 first opens and closes PriorSessions channels with
\* user 2, one after the other; from there on users 1 and 3 open channels
\* with user 2, everyone closes and force-expires them, and time passes.
PriorSessions == MAX_SESSIONS_PER_USER - 1
LimitIdSpace == 0..(PriorSessions + MaxSessions + 1)

\* The prior channels have all been opened and closed.
PriorDone ==
    /\ factory.totalSessions >= PriorSessions
    /\ ~sess[PriorSessions].sessionActive

InitLimit ==
    /\ now = 0
    /\ ticks = 0
    /\ sess = <<>>
    /\ factory = [sessionContracts |-> [i \in LimitIdSpace |-> ZeroAddress],
                  userSessions |-> [u \in Users |-> <<>>],
                  participantPairToSession |-> [u \in Users |-> [v \in Users |-> 0]],
                  totalSessions |-> 0,
                  activeSessions |-> 0]
    /\ chat = [messageCounter |-> 0,
               messages |-> <<>>,
               userMessages |-> [u \in Users |-> <<>>],
               conversationMessages |-> [h \in ConversationHashes |-> <<>>],
               totalMessages |-> 0]
    /\ pc = [u \in Clients |-> "idle"]
    /\ lk = [u \in Clients |-> ZeroAddress]
    /\ res = [u \in Clients |-> NoResult]
    /\ activeSessionsCache = [u \in Clients |-> ZeroAddress]
    /\ listing = [u \in Clients |-> NoListing]
    /\ lastTx = [op |-> "none", sender |-> 0, reason |-> "none"]
    /\ scan = ScanOff
    /\ view = ViewOff

NextLimit ==
    \/ /\ factory.totalSessions < PriorSessions
       /\ Len(sess) > 0 => ~sess[Len(sess)].sessionActive
       /\ createChatSessionTx(1, 2)
    \/ /\ Len(sess) > 0 /\ Len(sess) <= PriorSessions
       /\ sess[Len(sess)].sessionActive
       /\ closeSession(1, Len(sess))
    \/ /\ PriorDone
       /\ factory.totalSessions < PriorSessions + MaxSessions
       /\ \E sender \in Callers : createChatSessionTx(sender, 2)
    \/ /\ PriorDone
       /\ \E sender \in Users, a \in (PriorSessions + 1)..Len(sess) : closeSession(sender, a)
    \/ /\ PriorDone
       /\ \E sender \in Callers, a \in (PriorSessions + 1)..Len(sess) :
            forceExpireSession(sender, a)
    \/ /\ PriorDone
       /\ \E d \in TickSteps : Tick(d)

LimitSpec == InitLimit /\ [][NextLimit]_vars

MappedChannel(u) == factory.sessionContracts[factory.participantPairToSession[u][Peer(u)]]
\* ACTIVE and strictly before its deadline.
Usable(a) == sess[a].sessionActive /\ now < sess[a].sessionExpiry

\* A call is in createSession only if it found no channel or one older than
\* the duration.
C1_CreatingOnlyWhenNoneOrTooOld ==
    \A u \in Clients :
        pc[u] \in {"cs_estimateGas", "cs_tx", "cs_getSessionBetween"}
        => \/ lk[u] = ZeroAddress
           \/ now - sess[lk[u]].createdAt > 3600

\* The steps of a getOrCreateSession call.
C1_Transitions ==
    \A u \in Clients :
        /\ (pc[u] = "idle" /\ pc'[u] = "cs_estimateGas") => MappedChannel(u) = ZeroAddress
        /\ (pc[u] = "idle" /\ pc'[u] = "goc_createdAt")
              => lk'[u] = MappedChannel(u) /\ lk'[u] # ZeroAddress
        /\ (pc[u] = "goc_createdAt" /\ pc'[u] = "cs_estimateGas")
              => now - sess[lk[u]].createdAt > 3600
        /\ (pc[u] = "goc_createdAt" /\ pc'[u] = "returned")
              => /\ res'[u].status = "ok"
                 /\ res'[u].existed
                 /\ res'[u].contractAddress = lk[u]
        /\ (pc[u] = "goc_createdAt" /\ pc'[u] # pc[u]
                /\ now - sess[lk[u]].createdAt <= 3600)
              => pc'[u] = "returned"
        /\ (pc[u] = "cs_getSessionBetween" /\ res'[u].status = "ok"
                /\ res'[u].contractAddress # lk[u])
              => /\ ~res'[u].existed
                 /\ res'[u].contractAddress # ZeroAddress
                 /\ res'[u].contractAddress # lk[u]
                 /\ res'[u].contractAddress = MappedChannel(u)

C2_Step ==
    /\ \A a \in SessionAddrs :
          (\/ sess'[a].events # sess[a].events
           \/ sess'[a].messageCount # sess[a].messageCount
           \/ sess'[a].lastActivity # sess[a].lastActivity)
          => /\ lastTx'.op = "ChatSession.sendMessage"
             /\ lastTx'.reason = "ok"
             /\ lastTx'.sender \in {sess[a].participant1, sess[a].participant2}
             /\ sess[a].sessionActive
             /\ now < sess[a].sessionExpiry
             /\ sess'[a].messageCount = sess[a].messageCount + 1
             /\ Len(sess'[a].events) = Len(sess[a].events) + 1
             /\ sess'[a].events[Len(sess'[a].events)].from = lastTx'.sender
    /\ (lastTx'.op = "ChatSession.sendMessage" /\ ticks' = ticks
          /\ \A a \in SessionAddrs :
                ~(/\ lastTx'.sender \in {sess[a].participant1, sess[a].participant2}
                  /\ sess[a].sessionActive
                  /\ now < sess[a].sessionExpiry))
       => lastTx'.reason # "ok" /\ sess' = sess

\* C2: ChatSession.sendMessage changes a session (messageCount, lastActivity,
\* the MessageSent history) only when the caller is one of the two
\* participants, sessionActive is true and block.timestamp < sessionExpiry,
\* and then by exactly one event of that caller; in every other state the
\* call is rejected and leaves every session as it was.
C2_AcceptsOnlyActiveBeforeDeadline == [][C2_Step]_vars

\* C2 witness: a session holding a message has reached its deadline and a
\* participant's sendMessage at the deadline was rejected.
C2_Witness ==
    \E a \in SessionAddrs :
        /\ sess[a].messageCount = 1
        /\ now = sess[a].sessionExpiry
        /\ sess[a].sessionActive
        /\ lastTx = [op |-> "ChatSession.sendMessage", sender |-> sess[a].participant2,
                     reason |-> "Session expired"]

\* The deadline of every session is its creation time plus the duration.
C3_ExpiryIsCreatedAtPlusDuration ==
    \A a \in SessionAddrs : sess[a].sessionExpiry = sess[a].createdAt + 3600

\* A step keeps every session, its createdAt and its sessionExpiry.
C3_Step ==
    \A a \in SessionAddrs :
        /\ a \in 1..Len(sess')
        /\ sess'[a].createdAt = sess[a].createdAt
        /\ sess'[a].sessionExpiry = sess[a].sessionExpiry

\* C3: in every state sessionExpiry = createdAt + 3600 for every session,
\* and no step (sendMessage, closeSession, forceExpireSession,
\* createChatSession, cleanupExpiredSessions, the passing of time) changes
\* the createdAt or the sessionExpiry of an existing session.
C3_DeadlineNeverChanges ==
    [](C3_ExpiryIsCreatedAtPlusDuration) /\ [][C3_Step]_vars

\* C3 witness: a session took a message after its creation time, was closed
\* and was followed by a later creation for the same pair.
C3_Witness ==
    \E a \in SessionAddrs :
        /\ Len(sess[a].events) > 0
        /\ sess[a].events[1].timestamp > sess[a].createdAt
        /\ ~sess[a].sessionActive
        /\ a < Len(sess)
        /\ sess[a].sessionExpiry = sess[a].createdAt + 3600

\* The creation transaction of u is mined in a race: since u looked the
\* pair up, the other initiator has created channel m, to which the pair's
\* mapping now points.
InRace(u, m) ==
    /\ pc[u] = "cs_tx"
    /\ pc'[u] # "cs_tx"
    /\ m = MappedChannel(u)
    /\ m # ZeroAddress
    /\ m # lk[u]
    /\ sess[m].participant1 = Peer(u)

\* The creation mined second succeeds next to a usable first channel.
C4_Original_Step ==
    \A u \in Clients, m \in SessionAddrs :
        InRace(u, m)
        => /\ pc'[u] = "cs_getSessionBetween"
           /\ Len(sess') = Len(sess) + 1
           /\ factory'.sessionContracts[factory'.participantPairToSession[u][Peer(u)]]
                 = Len(sess')
           /\ sess'[m].sessionActive /\ now < sess'[m].sessionExpiry
           /\ sess'[Len(sess')].sessionActive /\ now < sess'[Len(sess')].sessionExpiry

C4_Amended_Step ==
    \A u \in Clients, m \in SessionAddrs :
        InRace(u, m)
        => /\ Usable(m)
                => /\ pc'[u] = "returned"
                   /\ lk[u] = ZeroAddress => res'[u] = Threw("tx", "Active session exists")
                   /\ lk[u] # ZeroAddress
                        => /\ res'[u].status = "ok"
                           /\ res'[u].contractAddress = lk[u]
                           /\ res'[u].existed
                   /\ factory' = factory
                   /\ sess' = sess
           /\ pc'[u] = "cs_getSessionBetween"
                => /\ ~Usable(m)
                   /\ Len(sess') = Len(sess) + 1
                   /\ sess'[m] = sess[m]
                   /\ factory'.sessionContracts[m] = m
                   /\ getSessionBetween(factory', sess', u, Peer(u), now).contractAddr
                         = Len(sess')
                   /\ getSessionBetween(factory', sess', Peer(u), u, now).contractAddr
                         = Len(sess')

C5_Step ==
    (lastTx'.op = "ChatSession.forceExpireSession" /\ ticks' = ticks)
    => /\ factory' = factory
       /\ chat' = chat
       /\ Len(sess') = Len(sess)
       /\ \A a \in SessionAddrs :
            /\ now < sess[a].sessionExpiry
                 => lastTx'.reason = "Session not yet expired" /\ sess'[a] = sess[a]
            /\ (now >= sess[a].sessionExpiry /\ ~sess[a].sessionActive)
                 => lastTx'.reason = "Session already closed" /\ sess'[a] = sess[a]
            /\ (now >= sess[a].sessionExpiry /\ sess[a].sessionActive)
                 => /\ lastTx'.reason = "ok"
                    /\ sess'[a] = [sess[a] EXCEPT !.sessionActive = FALSE]

\* C5: a forceExpireSession call by any address reverts with "Session not
\* yet expired" when block.timestamp < sessionExpiry, reverts with "Session
\* already closed" when the deadline has passed and sessionActive is false,
\* and otherwise sets sessionActive to false; no other field of the session
\* and nothing else on the ledger changes.
C5_ForceExpireOutcomes == [][C5_Step]_vars

\* C5 witness: an address that is no participant force-expired a session
\* that holds a message, after the deadline.
C5_Witness ==
    \E a \in SessionAddrs :
        /\ lastTx = [op |-> "ChatSession.forceExpireSession", sender |-> 3,
                     reason |-> "ok"]
        /\ ~sess[a].sessionActive
        /\ now >= sess[a].sessionExpiry
        /\ sess[a].messageCount > 0
\* Every message exchanged between u and its peer that the two ledgers hold.
Exchanged(u) ==
    Elems(getConversationMessages(chat, u, Peer(u),
              1..Len(chat.conversationMessages[generateConversationHash(u, Peer(u))])))
    \cup UNION {Elems(sessionMessagesOf(sess, a, 1..Len(sess[a].events))) :
                  a \in {x \in SessionAddrs :
                           {sess[x].participant1, sess[x].participant2} = {u, Peer(u)}}}

\* A listing command's fetch and merge, both sources answering.
C6_Step ==
    \A u \in Clients :
        (pc[u] = "idle" /\ pc'[u] = "rp_done" /\ listing'[u].complete)
        => Exchanged(u) \subseteq Elems(listing'[u].all)

\* C6 as stated: a listing both of whose sources answered holds every
\* message exchanged with the peer, those of superseded session channels
\* included.
C6_ListingHoldsEveryMessage == [][C6_Step]_vars

\* The place a stable ascending sort gives entry k of c.
StableRank(c, k) ==
    Cardinality({m \in 1..Len(c) : c[m].timestamp < c[k].timestamp})
    + Cardinality({m \in 1..k : c[m].timestamp = c[k].timestamp})

\* C7: the merged list is the persistent records followed by the session
\* records, sorted ascending by timestamp, stably: it is as long as both
\* inputs together, ascending, entry k of the concatenation stands at its
\* stable rank, and each entry carries the source of the input it came from.
C7_MergeIsStableSortOfConcat ==
    view.pc = "merged"
    => LET c == view.standardMessages \o view.sessionMessages
           all == view.allMessages IN
       /\ Len(all) = Len(view.standardMessages) + Len(view.sessionMessages)
       /\ \A i \in 1..(Len(all) - 1) : all[i].timestamp <= all[i + 1].timestamp
       /\ \A k \in 1..Len(c) :
             /\ all[StableRank(c, k)] = c[k]
             /\ all[StableRank(c, k)].source
                   = IF k <= Len(view.standardMessages) THEN "main" ELSE "session"

\* C7 witness: persistent timestamps [5,1,3] and session timestamps [2,4]
\* have been merged to [1,2,3,4,5] with sources main, session, main,
\* session, main.
C7_Witness ==
    /\ view.pc = "merged"
    /\ [i \in 1..Len(view.standardMessages) |-> view.standardMessages[i].timestamp]
          = <<5, 1, 3>>
    /\ [i \in 1..Len(view.sessionMessages) |-> view.sessionMessages[i].timestamp]
          = <<2, 4>>
    /\ [i \in 1..Len(view.allMessages) |-> view.allMessages[i].timestamp]
          = <<1, 2, 3, 4, 5>>
    /\ [i \in 1..Len(view.allMessages) |-> view.allMessages[i].source]
          = <<"main", "session", "main", "session", "main">>

\* How often position i was handed to decryptFromSender.
DecryptCount(i) ==
    Cardinality({j \in 1..Len(view.decryptCalls) : view.decryptCalls[j] = i})

\* C8: of the messages rendered so far, one with expiry # 0 and
\* now > expiry is shown with its position and timestamp, its content
\* hidden, and was never handed to decryptFromSender; every other one was
\* handed to it exactly once and is shown with what it returned.
C8_ExpiredHiddenOthersDecryptedOnce ==
    view.pc \in {"render", "summary"}
    => /\ Len(view.shown) = view.index
       /\ \A i \in 1..view.index :
            LET message == view.allMessages[i] IN
            /\ view.shown[i].position = i
            /\ view.shown[i].timestamp = message.timestamp
            /\ IF message.expiry # 0 /\ view.currentTime > message.expiry
               THEN /\ DecryptCount(i) = 0
                    /\ view.shown[i].label = "EXPIRED"
                    /\ view.shown[i].content = "[Content hidden - message has expired]"
               ELSE /\ DecryptCount(i) = 1
                    /\ view.shown[i].label # "EXPIRED"
                    /\ view.shown[i].content
                          = decryptFromSender(message.cid, PrivateKeyOf(view.viewer),
                                              message.from)

\* C8 witness: a listing was rendered that holds a message expired 100 s ago
\* (hidden, not decrypted) and a message expiring at this very second
\* (decrypted once, its plaintext shown).
C8_Witness ==
    /\ view.pc = "summary"
    /\ \E i \in 1..Len(view.allMessages), j \in 1..Len(view.allMessages) :
         /\ view.allMessages[i].expiry = view.currentTime - 100
         /\ view.shown[i].label = "EXPIRED"
         /\ DecryptCount(i) = 0
         /\ view.allMessages[j].expiry = view.currentTime
         /\ DecryptCount(j) = 1
         /\ view.shown[j].content = "hello"

\* Whether the scan got as far as its chunk loop.
ScanStarted == scan.pc \in {"chunks", "retry", "done"} /\ scan.currentBlock # NoBlock

\* C9 as stated: of a chunk rejected as too large, the events of every
\* 100-block sub-chunk whose own query would be answered are in the
\* returned messages.
C9_SubChunkEventsReturned ==
    scan.pc = "done" => scan.retryExpected \subseteq Elems(scan.returned)

\* C10: a failed chunk (whatever the error, and whatever happens in its
\* retry loop) neither discards what was collected nor ends the chunk loop:
\* at every point the messages collected so far hold every event of every
\* chunk whose query was answered, the list returned holds them all, and by
\* then every chunk of the window has been queried.
C10_ChunkFailureKeepsResults ==
    ScanStarted
    => /\ scan.expected \subseteq
            Elems(IF scan.pc = "done" THEN scan.returned ELSE scan.messages)
       /\ scan.pc = "done"
            => scan.queried = ChunkStarts(scan.safeStartBlock, scan.currentBlock)

\* C10 witness: a scan is over in which a chunk failed, an event collected
\* before that chunk and an event of a chunk after it are both returned.
C10_Witness ==
    /\ scan.pc = "done"
    /\ scan.firstFailed # NoBlock
    /\ \E e1 \in Elems(scan.returned), e2 \in Elems(scan.returned) :
         /\ e1.timestamp < scan.firstFailed
         /\ e2.timestamp > scan.firstFailed + chunkSize
         /\ {e1, e2} \subseteq scan.expected

\* C11: however the block-height read, the chunk queries and the sub-chunk
\* queries fail, a getSessionMessagesWithLimit call that has ended has
\* returned a list and has thrown nothing; when the block-height read
\* failed the list is empty.
C11_ScanNeverThrows ==
    /\ scan.pc = "done"
         => /\ scan.outcome = "returned"
            /\ scan.returned \in Seq(Elems(scan.messages))
            /\ scan.currentBlock = NoBlock => scan.returned = <<>>
    /\ scan.pc # "done" => scan.outcome = "none"

\* C11 witness: a scan has returned a list after a chunk was rejected as too
\* large and its retry loop was run.
C11_Witness ==
    /\ scan.pc = "done"
    /\ scan.outcome = "returned"
    /\ scan.firstFailed # NoBlock
    /\ scan.retryExpected # {}
\* C12: decryptFromSender never raises: whatever envelope text, private key
\* and sender address it is given, it returns a string, either a plaintext
\* or one of the sentinel strings.
C12_DecryptNeverRaises ==
    view.pc = "crypto" /\ view.op = "decrypt"
        => /\ view.out.kind = "returned"
           /\ view.out.value \in (Plaintexts \ {""})
                \cup {"[Corrupted message]",
                      "[Legacy message format - please resend with current version]",
                      "[Message could not be decrypted]"}

\* A decryption whose body failed for lack of the sender's testing key and
\* came back as the sentinel.
C12_Witness ==
    /\ view.pc = "crypto" /\ view.op = "decrypt"
    /\ decryptFromSender_try(view.encryptedData, view.recipientPrivateKey,
                             view.senderAddress).kind = "threw"
    /\ view.senderAddress \notin TestingKeyAddresses
    /\ view.out = Return("[Message could not be decrypted]")


\* The key that decryptFromSender derives for the call recorded in view.
DerivedForCall ==
    LET senderPrivateKey == getRecipientPrivateKeyForTesting(view.senderAddress) IN
    IF senderPrivateKey.kind = "threw" THEN senderPrivateKey
    ELSE generateSharedSecret(view.recipientPrivateKey,
                              getPublicKeyFromPrivate(senderPrivateKey.value).value)

WellFormed(e) == e.parses /\ e.hasCiphertext /\ e.hasNonce

TagFails ==
    /\ DerivedForCall.kind = "returned"
    /\ \/ view.encryptedData.key # DerivedForCall.value
       \/ ~view.encryptedData.intact

\* C13: decryptFromSender classifies failures in this order: an envelope that
\* does not parse or lacks ciphertext or nonce yields the corrupted sentinel
\* (shorter than 100 characters) or the legacy sentinel; a parsed envelope
\* with both fields whose algorithm is not 'XChaCha20-Poly1305' yields the
\* legacy sentinel; a well-formed envelope whose authentication tag fails
\* under the derived key yields the undecryptable sentinel and never the
\* sealed plaintext.
C13_FailureClassification ==
    view.pc = "crypto" /\ view.op = "decrypt"
        => LET e == view.encryptedData IN
           /\ ~WellFormed(e)
                => view.out = Return(IF e.length < 100
                                     THEN "[Corrupted message]"
                                     ELSE "[Legacy message format - please resend with current version]")
           /\ WellFormed(e) /\ e.algorithm # "XChaCha20-Poly1305"
                => view.out = Return("[Legacy message format - please resend with current version]")
           /\ WellFormed(e) /\ e.algorithm = "XChaCha20-Poly1305" /\ TagFails
                => /\ view.out = Return("[Message could not be decrypted]")
                   /\ view.out.value # e.plaintext

\* An envelope sealed for one recipient and opened with another valid key.
C13_Witness ==
    /\ view.pc = "crypto" /\ view.op = "decrypt"
    /\ view.sealed.known /\ view.sealed.message = "hello"
    /\ view.recipientPrivateKey.scalar # ScalarOf(view.sealed.recipientAddress)
    /\ TagFails
    /\ view.encryptedData.intact
    /\ view.out = Return("[Message could not be decrypted]")


\* C14: round trip: for every non-empty plaintext m and every two identities
\* A and B that have a testing key, decrypting with (B's private key, sender
\* A) the envelope that encryptForRecipient(m, A's private key, B) returned
\* gives exactly m.
C14_RoundTrip ==
    view.pc = "crypto" /\ view.op = "decrypt" /\ view.sealed.known
        => \A A \in TestingKeyAddresses, B \in TestingKeyAddresses :
             /\ view.sealed.message # ""
             /\ view.sealed.senderPrivateKey.scalar = ScalarOf(A)
             /\ view.sealed.recipientAddress = B
             /\ view.recipientPrivateKey.scalar = ScalarOf(B)
             /\ view.senderAddress = A
             => view.out = Return(view.sealed.message)

\* Address 1 sealed "hello" for address 2, and address 2 opened it.
C14_Witness ==
    /\ view.pc = "crypto" /\ view.op = "decrypt" /\ view.sealed.known
    /\ view.sealed.message = "hello"
    /\ view.sealed.senderPrivateKey = PrivateKeyOf(1)
    /\ view.sealed.recipientAddress = 2
    /\ view.recipientPrivateKey = PrivateKeyOf(2)
    /\ view.senderAddress = 1
    /\ view.out = Return("hello")


\* C15: encryptForRecipient rejects an empty plaintext: called with the empty
\* string it raises an error and produces no envelope.
C15_EmptyPlaintextRejected ==
    view.pc = "crypto" /\ view.op = "encrypt" /\ view.message = ""
        => view.out.kind = "threw"


\* The public key text that getPublicKeyFromPrivate returns for address a.
PublicKeyOf(a) == getPublicKeyFromPrivate(PrivateKeyOf(a)).value

\* C16: shared-key derivation is commutative: for every two key pairs A and
\* B, generateSharedSecret(A.priv, B.pub) returns a key, and it is the key
\* that generateSharedSecret(B.priv, A.pub) returns, each public key being the
\* output of getPublicKeyFromPrivate.
C16_DerivationCommutes ==
    view.pc = "crypto" /\ view.op = "derive"
        => \A A \in Users, B \in Users :
             /\ view.privateKeyHex.scalar = ScalarOf(A)
             /\ view.publicKeyHex = PublicKeyOf(B)
             => /\ view.out.kind = "returned"
                /\ view.out = generateSharedSecret(PrivateKeyOf(B), PublicKeyOf(A))

\* The key of address 1's private key and address 2's public key.
C16_Witness ==
    /\ view.pc = "crypto" /\ view.op = "derive"
    /\ view.privateKeyHex = PrivateKeyOf(1)
    /\ view.publicKeyHex = PublicKeyOf(2)
    /\ view.out.kind = "returned"
    /\ view.out.value \in DerivedKeys


\* The two encodings as the claim names them: the 64 digits of a compressed
\* point without its prefix byte, or the 130 digits of an uncompressed point
\* with its prefix byte 04.
NamedEncoding(publicKeyHex) ==
    \/ publicKeyHex.length = 64
    \/ publicKeyHex.length = 130 /\ publicKeyHex.startsWith04

\* C17: generateSharedSecret accepts a peer public key only as a compressed
\* point without prefix or as an uncompressed point with prefix byte; every
\* other length/prefix combination fails with the invalid-key-format error and
\* returns no key; every key that getPublicKeyFromPrivate returns is in an
\* accepted encoding.
C17_NamedEncodingsAccepted ==
    view.pc = "crypto" /\ view.op = "derive" /\ view.privateKeyHex.scalar \in ValidScalars
        => /\ view.out.kind = "returned" => NamedEncoding(view.publicKeyHex)
           /\ ~NamedEncoding(view.publicKeyHex)
                => view.out = Throw("Invalid public key format")
           /\ \A a \in Users : NamedEncoding(PublicKeyOf(a))

\* C17 (amended): after an optional "0x", generateSharedSecret accepts a peer
\* public key only as the 128 digits of an uncompressed point without prefix
\* byte or as the 130 digits of an uncompressed point with its prefix byte 04;
\* every other length/prefix combination, a compressed point included, returns
\* no key, and fails with the invalid-key-format error when the private key is
\* valid; every key that getPublicKeyFromPrivate returns is the 128-digit
\* form, and a valid private key derives a key from it.
C17_UncompressedEncodingsAccepted ==
    view.pc = "crypto" /\ view.op = "derive"
        => LET k == view.publicKeyHex
               accepted == k.length = 128 \/ (k.length = 130 /\ k.startsWith04) IN
           /\ view.out.kind = "returned" => accepted
           /\ ~accepted /\ view.privateKeyHex.scalar \in ValidScalars
                => view.out = Throw("Invalid public key format")
           /\ /\ view.privateKeyHex.scalar \in ValidScalars
              /\ \E a \in Users : k = PublicKeyOf(a)
              => view.out.kind = "returned"
           /\ \A a \in Users : PublicKeyOf(a).length = 128 /\ ~PublicKeyOf(a).has0x

\* A compressed point without prefix, refused under a valid private key.
C17_Witness ==
    /\ view.pc = "crypto" /\ view.op = "derive"
    /\ view.privateKeyHex = PrivateKeyOf(1)
    /\ view.publicKeyHex.length = 64 /\ view.publicKeyHex.point # 0
    /\ view.out = Throw("Invalid public key format")


\* The ids of the stored messages between a and b, in either direction.
Between(a, b) ==
    {id \in 0..(chat.messageCounter - 1) :
        {getMessage(chat, id).from, getMessage(chat, id).to} = {a, b}}

\* C18: the conversation identifier is symmetric: for any two distinct
\* addresses A and B, generateConversationHash(A, B) is
\* generateConversationHash(B, A); the messages sent A->B and B->A are all in
\* the one conversationMessages list of that identifier, which holds nothing
\* else, and getConversationMessages of A with B and of B with A return the
\* same records.
C18_ConversationHashSymmetric ==
    \A A \in Users : \A B \in Users \ {A} :
        /\ generateConversationHash(A, B) = generateConversationHash(B, A)
        /\ Elems(chat.conversationMessages[generateConversationHash(A, B)]) = Between(A, B)
        /\ LET all == 1..chat.messageCounter IN
           getConversationMessages(chat, A, B, all) = getConversationMessages(chat, B, A, all)
        /\ view.pc = "fetched" /\ view.user = A /\ view.otherAddress = B
             /\ view.out.kind = "returned" /\ view.fetched = 1..Cardinality(Between(A, B))
             => view.out.value = getConversationMessages(chat, B, A, view.fetched)

\* A message 1->2 and a message 2->1 are stored, and client 2 has read both.
C18_Witness ==
    /\ \E i \in Between(1, 2), j \in Between(1, 2) :
         /\ getMessage(chat, i).from = 1
         /\ getMessage(chat, j).from = 2
    /\ view.pc = "fetched" /\ view.user = 2 /\ view.out.kind = "returned"
    /\ Len(view.out.value) = 2


\* Every recorded message, stored or emitted, has no expiry or one after its
\* creation timestamp.
C19_RecordedExpiryInFuture ==
    /\ \A i \in 1..Len(chat.messages) :
         chat.messages[i].expiry = 0 \/ chat.messages[i].expiry > chat.messages[i].timestamp
    /\ \A a \in SessionAddrs : \A i \in 1..Len(sess[a].events) :
         sess[a].events[i].expiry = 0 \/ sess[a].events[i].expiry > sess[a].events[i].timestamp

\* A submission with a nonzero expiry that is not after block.timestamp is
\* rejected and records nothing.
C19_Step ==
    /\ \A e \in MainExpiryInputs(now) :
         e # 0 /\ ~(e > now) /\ ChatContract_sendMessageTx(1, 2, "env", "text", e)
            => chat' = chat /\ lastTx'.reason = "Expiry must be in future"
    /\ \A a \in SessionAddrs : \A e \in ExpiryInputs(now) :
         e # 0 /\ ~(e > now) /\ ChatSession_sendMessage(1, a, "env", "text", e)
            => sess' = sess /\ lastTx'.reason # "ok"

\* C19: for every message ever recorded, in ChatContract storage or as a
\* ChatSession MessageSent event, expiry = 0 or expiry > the message's
\* creation timestamp; a submission with a nonzero expiry that is not in the
\* future is rejected and records nothing.
C19_ExpiryInFutureAtSubmission ==
    [](C19_RecordedExpiryInFuture) /\ [][C19_Step]_vars

\* A stored message and an emitted event carry an expiry, time has passed,
\* and the last submission was rejected for its expiry.
C19_Witness ==
    /\ now > 0
    /\ \E i \in 1..Len(chat.messages) : chat.messages[i].expiry > chat.messages[i].timestamp
    /\ \E a \in SessionAddrs : \E i \in 1..Len(sess[a].events) :
         sess[a].events[i].expiry > sess[a].events[i].timestamp
    /\ lastTx.reason \in {"Expiry must be in future", "Invalid expiry"}


\* The ids of the conversation that the call recorded in view read.
FetchedIds ==
    chat.conversationMessages[generateConversationHash(view.user, view.otherAddress)]

\* C20: in BlockchainService.getConversationMessages a failure fetching one
\* message record skips only that record: the call returns, in identifier
\* order, exactly the records of the ids whose getMessage succeeded, each
\* with the stored fields and source 'main'.
C20_FailedFetchSkipsOneRecord ==
    view.pc = "fetched" /\ view.out.kind = "returned"
        => LET messages == view.out.value IN
           /\ Len(messages) = Cardinality(view.fetched)
           /\ {messages[i].messageId : i \in 1..Len(messages)}
                = {FetchedIds[i] : i \in view.fetched}
           /\ \A i \in 1..Len(messages) : \A j \in 1..Len(messages) :
                i < j => messages[i].messageId < messages[j].messageId
           /\ \A i \in 1..Len(messages) :
                /\ messages[i].source = "main"
                /\ messages[i].from = getMessage(chat, messages[i].messageId).from
                /\ messages[i].to = getMessage(chat, messages[i].messageId).to
                /\ messages[i].cid = getMessage(chat, messages[i].messageId).cid
                /\ messages[i].timestamp = getMessage(chat, messages[i].messageId).timestamp
                /\ messages[i].expiry = getMessage(chat, messages[i].messageId).expiry

\* Of two messages of the conversation the fetch of the first failed, and the
\* call returned the second alone.
C20_Witness ==
    /\ view.pc = "fetched" /\ view.out.kind = "returned"
    /\ Len(FetchedIds) = 2
    /\ view.fetched = {2}
    /\ Len(view.out.value) = 1
    /\ view.out.value[1].messageId = FetchedIds[2]


\* The end of a getOrCreateSession call that had gone on to create.
C21_Step ==
    \A u \in Clients :
        pc[u] \in {"cs_estimateGas", "cs_tx", "cs_getSessionBetween"} /\ pc'[u] = "returned"
        => /\ res'[u].status \in {"ok", "threw"}
           /\ res'[u].status = "threw" => res'[u].contractAddress = ZeroAddress
           /\ pc[u] \in {"cs_estimateGas", "cs_tx"} => res'[u].status = "threw"
           /\ res'[u].status = "ok"
                => /\ pc[u] = "cs_getSessionBetween"
                   /\ res'[u].contractAddress = MappedChannel(u)
                   /\ res'[u].contractAddress # ZeroAddress
                   /\ res'[u].contractAddress # lk[u]
                   /\ ~res'[u].existed

\* C21: whenever getOrCreateSession has to create a channel (none is mapped,
\* or the mapped one is older than the duration) and the creation fails, at
\* the gas estimate, in the transaction or at the read back, it throws and
\* returns no channel; it returns a channel only after a creation of its own
\* went through, and then the newly mapped one.
C21_CreationFailsLoudly == [][C21_Step]_vars

\* The end of the age check of a mapped channel.
C22_Step ==
    \A u \in Clients :
        pc[u] = "goc_createdAt" /\ pc'[u] # pc[u]
        => /\ pc'[u] \in {"returned", "cs_estimateGas"}
           /\ pc'[u] = "cs_estimateGas" => now - sess[lk[u]].createdAt > ONE_HOUR
           /\ pc'[u] = "returned"
                => /\ res'[u].status = "ok"
                   /\ res'[u].contractAddress = lk[u]
                   /\ res'[u].existed
                   /\ factory' = factory /\ sess' = sess

\* C22: when a channel is mapped for the pair but reading its creation time
\* fails, getOrCreateSession neither blocks nor throws: it returns the mapped
\* channel's address with existed = TRUE and submits no creation.
C22_UnreadableAgeFallsBackToReuse == [][C22_Step]_vars

\* The createdAt read of a channel older than the duration failed, and the
\* call returned that channel.
C22_Witness ==
    \E u \in Clients :
        /\ pc[u] = "returned"
        /\ res[u].status = "ok" /\ res[u].existed
        /\ res[u].at = "createdAt"
        /\ res[u].contractAddress = lk[u]
        /\ now - sess[lk[u]].createdAt > ONE_HOUR


\* A lookup of getOrCreateSession and a read of getMessages use the channel
\* the ledger maps for the pair at that moment, and getMessages returns that
\* channel's messages.
C23_Step ==
    /\ \A u \in Clients :
         pc[u] = "idle" /\ pc'[u] \in {"goc_createdAt", "cs_estimateGas"}
            => lk'[u] = MappedChannel(u)
    /\ view.pc = "off" /\ view'.pc = "getMessages" /\ view'.out.kind = "returned"
         => /\ view'.channel = MappedChannel(view'.user)
            /\ view'.out.value
                 = IF MappedChannel(view'.user) = ZeroAddress THEN <<>>
                   ELSE sessionMessagesOf(sess, MappedChannel(view'.user),
                                          1..Len(sess[MappedChannel(view'.user)].events))

\* C23: the activeSessions map of the SessionManager is only an optimization:
\* whatever it holds, getMessages(peer) and getOrCreateSession(peer) read the
\* channel that the ledger maps for the pair and return what they would
\* return with an empty map; a stale entry never makes them use another
\* channel.
C23_CacheIsOnlyAnOptimization == [][C23_Step]_vars

\* ---------------------------------------------------------------------- C24
IsPrefix(s, t) == Len(s) <= Len(t) /\ SubSeq(t, 1, Len(s)) = s

C24_Step ==
    /\ \A id \in IdSpace :
         factory.sessionContracts[id] # ZeroAddress
             => factory'.sessionContracts[id] = factory.sessionContracts[id]
    /\ \A u \in Users : IsPrefix(factory.userSessions[u], factory'.userSessions[u])

\* C24: a registered session contract is never replaced or removed
\* (sessionContracts[id], once non-zero, keeps its value in every later
\* state), and every userSessions list only grows at its end: each step
\* leaves the old list as a prefix of the new one.
C24_RegistryOnlyGrows == [][C24_Step]_vars

\* A pair whose first channel was superseded by a second one: both ids are
\* still registered and both are on the creator's list, in creation order.
C24_Witness ==
    /\ factory.userSessions[1] = <<1, 2>>
    /\ factory.sessionContracts[1] # ZeroAddress
    /\ factory.sessionContracts[2] # ZeroAddress
    /\ factory.participantPairToSession[1][2] = 2

\* ---------------------------------------------------------------------- C25
\* C25: the pair mapping is symmetric in every reachable state,
\* participantPairToSession[A][B] = participantPairToSession[B][A] for all
\* addresses A and B, and getSessionBetween(A, B) returns what
\* getSessionBetween(B, A) returns, whichever party created the channel.
C25_SessionIdentitySymmetric ==
    \A A \in Users : \A B \in Users :
        /\ factory.participantPairToSession[A][B] = factory.participantPairToSession[B][A]
        /\ getSessionBetween(factory, sess, A, B, now)
               = getSessionBetween(factory, sess, B, A, now)

\* User 1 looks up the channel that user 2 created, and finds it.
C25_Witness ==
    /\ getSessionBetween(factory, sess, 1, 2, now).contractAddr # ZeroAddress
    /\ sess[getSessionBetween(factory, sess, 1, 2, now).contractAddr].participant1 = 2

\* ---------------------------------------------------------------------- C26
C26_Step ==
    \A a \in SessionAddrs :
        /\ \A u \in Users :
              onlyParticipants(sess[a], u) /\ closeSession(u, a)
                  => ~sess'[a].sessionActive
        /\ sess[a].sessionActive /\ ~sess'[a].sessionActive /\ now < sess[a].sessionExpiry
              => /\ lastTx'.op = "ChatSession.closeSession"
                 /\ onlyParticipants(sess[a], lastTx'.sender)

\* C26: a participant's closeSession marks the session inactive at any
\* time; before sessionExpiry the only step that turns sessionActive from
\* true to false is a participant's closeSession, so no call of a
\* non-participant, on the ChatSession or through cleanupExpiredSessions,
\* does it.
C26_OnlyParticipantsCloseBeforeDeadline == [][C26_Step]_vars

\* An outsider's cleanup of a channel before its deadline went through and
\* the channel is still active.
C26_Witness ==
    /\ lastTx.op = "ChatFactory.cleanupExpiredSessions"
    /\ lastTx.reason = "ok"
    /\ \E a \in SessionAddrs :
         /\ ~onlyParticipants(sess[a], lastTx.sender)
         /\ now < sess[a].sessionExpiry
         /\ sess[a].sessionActive

\* ---------------------------------------------------------------------- C27
\* The last block of the chunk that starts at block q.
ChunkEnd(q) == Min(q + chunkSize - 1, scan.currentBlock)

C27_Window ==
    ScanStarted =>
      LET lo == scan.safeStartBlock
          hi == scan.currentBlock IN
      /\ lo >= scan.fromBlock
      /\ lo >= hi - maxBlocksToScan
      /\ lo \in {scan.fromBlock, hi - maxBlocksToScan}
      /\ \A q \in scan.queried :
            /\ lo <= q /\ ChunkEnd(q) <= hi
            /\ (ChunkEnd(q) - q) + 1 <= chunkSize
            /\ q = lo \/ q - chunkSize \in scan.queried
      /\ \A q1 \in scan.queried : \A q2 \in scan.queried :
            q1 < q2 => ChunkEnd(q1) < q2
      /\ scan.pc = "chunks" => \A q \in scan.queried : ChunkEnd(q) < scan.block
      /\ Cardinality(scan.queried) <= (maxBlocksToScan \div chunkSize) + 1
      /\ scan.pc = "done" /\ scan.firstFailed = NoBlock /\ lo <= hi
            => /\ lo \in scan.queried
               /\ \A q \in scan.queried :
                     ChunkEnd(q) = hi \/ ChunkEnd(q) + 1 \in scan.queried

\* C27: the chunk loop queries only blocks of
\* [max(currentBlock - 10000, fromBlock), currentBlock], in chunks of at
\* most 500 blocks, each starting right after the previous one ends, so the
\* chunks are pairwise disjoint and the next chunk lies beyond every chunk
\* queried before; when no query failed, the chunks queried by the end
\* start at the window's first block and reach its last block without a
\* gap. At most 21 chunks are queried and, whatever the answers, the scan
\* ends.
C27_ScanBoundedAndGapFree == []C27_Window /\ <>(scan.pc = "done")

\* A scan of a full window of 10001 blocks is over, every query was
\* answered, and 21 chunks were queried.
C27_Witness ==
    /\ scan.pc = "done"
    /\ scan.firstFailed = NoBlock
    /\ scan.currentBlock - scan.safeStartBlock = maxBlocksToScan
    /\ Cardinality(scan.queried) = 21

\* ---------------------------------------------------------------------- C28
\* What each source holds for client u when the listing command fetches.
StoredFor(u) ==
    getConversationMessages(chat, u, Peer(u),
        1..Len(chat.conversationMessages[generateConversationHash(u, Peer(u))]))

SessionStoredFor(u) ==
    LET channel == getMessagesChannel(ZeroAddress, factory, sess, u, Peer(u), now) IN
    IF channel # ZeroAddress
    THEN sessionMessagesOf(sess, channel, 1..Len(sess[channel].events))
    ELSE <<>>

C28_Step ==
    \A u \in Clients :
        pc[u] = "idle" /\ pc'[u] = "rp_done"
        => /\ listing'[u].sessionFetched
                 => Elems(SessionStoredFor(u)) \subseteq Elems(listing'[u].all)
           /\ listing'[u].standardFetched
                 => Elems(StoredFor(u)) \subseteq Elems(listing'[u].all)
           /\ Len(listing'[u].all) =
                   (IF listing'[u].standardFetched THEN Len(StoredFor(u)) ELSE 0)
                 + (IF listing'[u].sessionFetched THEN Len(SessionStoredFor(u)) ELSE 0)

\* C28: a listing command whose persistent-store fetch threw still lists
\* every session message, one whose session fetch threw still lists every
\* persistent-store message, and in each case the command goes on to its
\* merged list, which holds exactly the messages of the sources that
\* answered.
C28_SourcesFailIndependently == [][C28_Step]_vars

\* A listing whose persistent-store fetch threw while the store held a
\* message, and which lists the session's message.
C28_Witness ==
    /\ pc[1] = "rp_done"
    /\ ~listing[1].standardFetched
    /\ listing[1].sessionFetched
    /\ chat.messageCounter > 0
    /\ Len(listing[1].all) > 0

\* ---------------------------------------------------------------------- C29
\* The channel no longer accepts messages: it is closed or past its deadline.
Stopped(s, t) == ~s.sessionActive \/ t >= s.sessionExpiry

C29_Step ==
    /\ \A a \in 1..Len(sess') : a \notin SessionAddrs => sess'[a].sessionActive
    /\ \A a \in SessionAddrs :
         /\ ~sess[a].sessionActive => ~sess'[a].sessionActive
         /\ sess'[a].sessionExpiry = sess[a].sessionExpiry
         /\ Stopped(sess[a], now)
               => /\ Stopped(sess'[a], now')
                  /\ sess'[a].events = sess[a].events
                  /\ sess'[a].messageCount = sess[a].messageCount
                  /\ \A u \in Users :
                        sendMessageRevert(sess[a], u, "env", "text", 0, now) # "ok"

\* C29: a ChatSession is created with sessionActive true; no step turns
\* sessionActive from false to true or changes sessionExpiry; and a channel
\* that is closed or past its deadline rejects every sendMessage, records
\* no message in any step, and is closed or past its deadline afterwards.
C29_LifecycleOneWay == [][C29_Step]_vars

\* A participant's message to its own channel was rejected because the
\* channel had been closed before its deadline.
C29_Witness ==
    /\ lastTx.op = "ChatSession.sendMessage"
    /\ lastTx.reason = "Session closed"
    /\ \E a \in SessionAddrs :
         /\ onlyParticipants(sess[a], lastTx.sender)
         /\ ~sess[a].sessionActive
         /\ now < sess[a].sessionExpiry

\* ---------------------------------------------------------------------- C30
C30_Step ==
    /\ \A a \in 1..Len(sess') :
         /\ sess'[a].messageCount = Len(sess'[a].events)
         /\ \A k \in 1..Len(sess'[a].events) : sess'[a].events[k].messageIndex = k - 1
    /\ \A a \in SessionAddrs :
         /\ SubSeq(sess'[a].events, 1, Len(sess[a].events)) = sess[a].events
         /\ Len(sess'[a].events) <= Len(sess[a].events) + 1
    /\ (lastTx'.op = "ChatSession.sendMessage" /\ lastTx'.reason # "ok" /\ ticks' = ticks)
          => sess' = sess

\* C30: in every ChatSession the k-th event of the MessageSent history
\* carries messageIndex k-1 and messageCount equals the number of events;
\* a step adds at most one event, at the end of the history, and a
\* rejected sendMessage leaves every session, its messageCount included,
\* as it was.
C30_IndicesGapFree == [][C30_Step]_vars

\* A session holds its first message, and a participant's sendMessage after
\* it was rejected for its empty cid and took no index.
C30_Witness ==
    \E a \in SessionAddrs :
        /\ sess[a].messageCount = 1
        /\ sess[a].events[1].messageIndex = 0
        /\ lastTx.op = "ChatSession.sendMessage"
        /\ lastTx.reason = "CID required"
        /\ onlyParticipants(sess[a], lastTx.sender)

\* ---------------------------------------------------------------------- C31
\* The age of the mapped channel was read and the channel is returned as
\* the existing one.
C31_Step ==
    \A u \in Clients :
        (/\ pc[u] = "goc_createdAt" /\ pc'[u] = "returned"
         /\ res'[u].status = "ok" /\ res'[u].existed
         /\ res'[u] = Returned(lk[u], TRUE))
        => /\ Usable(res'[u].contractAddress)
           /\ sendMessageRevert(sess[res'[u].contractAddress], u, "env", "text", 0, now)
                 = "ok"

\* C31 as stated: a channel that getOrCreateSession returns with existed =
\* TRUE after reading its creation time is active and strictly before its
\* deadline on the ledger at that instant, and accepts the caller's
\* sendMessage.
C31_ReusedChannelAcceptsMessages == [][C31_Step]_vars

\* ---------------------------------------------------------------------- C32
SamePair(a, b) ==
    {sess[a].participant1, sess[a].participant2}
        = {sess[b].participant1, sess[b].participant2}

C32_AtMostOneUsable ==
    \A a \in SessionAddrs : \A b \in SessionAddrs :
        (a # b /\ SamePair(a, b)) => ~(Usable(a) /\ Usable(b))

\* A step that deploys a session for a pair found the pair's mapped session
\* missing, closed or past its deadline.
C32_Step ==
    Len(sess') > Len(sess)
    => LET new == sess'[Len(sess')]
           old == factory.sessionContracts[
                      factory.participantPairToSession[new.participant1][new.participant2]] IN
       old = ZeroAddress \/ ~Usable(old)

\* C32: in every reachable state at most one session of each unordered pair
\* is both sessionActive and before its deadline, and createChatSession
\* deploys a session for a pair only when the pair's mapped session is
\* closed or past its deadline (or there is none).
C32_OneUsableSessionPerPair == []C32_AtMostOneUsable /\ [][C32_Step]_vars

\* A pair's channel was closed before its deadline and superseded by a new
\* one, which is usable while the old one's deadline has not passed.
C32_Witness ==
    \E a \in SessionAddrs : \E b \in SessionAddrs :
        /\ a # b /\ SamePair(a, b)
        /\ ~sess[a].sessionActive /\ now < sess[a].sessionExpiry
        /\ Usable(b)

\* ---------------------------------------------------------------------- C33
\* The registered session of id is past its deadline and still marked active.
ExpiredStillActive(id) ==
    LET sessionAddr == factory.sessionContracts[id] IN
    /\ sessionAddr # ZeroAddress
    /\ isSessionExpired(sess[sessionAddr], now)
    /\ sess[sessionAddr].sessionActive

\* C33 as stated: activeSessions never has to go below zero, so
\* cleanupExpiredSessions given the id of an expired, still-active session
\* does not revert.
C33_CleanupNeverReverts ==
    \A id \in IdSpace \ {0} :
        ExpiredStillActive(id)
        => cleanupLoop(factory, <<id>>, 1, sess, factory.activeSessions, now).reason = "ok"

\* ---------------------------------------------------------------------- C34
\* The message is the envelope its sender sealed for its addressee.
SealedBySender(message) ==
    message.cid = encryptForRecipient("hello", PrivateKeyOf(message.from), message.to).value

\* C34 as stated: every unexpired message rendered so far that its sender
\* sealed for its addressee is shown with its plaintext, whether the viewer
\* sent it or received it.
C34_BothDirectionsShowPlaintext ==
    view.pc \in {"render", "summary"}
    => \A i \in 1..view.index :
         LET message == view.allMessages[i] IN
         (SealedBySender(message) /\ ~isExpired(message, view.currentTime))
             => view.shown[i].content = "hello"

\* ---------------------------------------------------------------------- C35
\* The channel deployed by u's latest createChatSession transaction: the
\* constructor records msg.sender as participant1.
CreatedByOwnTx(u) ==
    CHOOSE a \in SessionAddrs :
        /\ sess[a].participant1 = u
        /\ \A b \in SessionAddrs : sess[b].participant1 = u => b <= a

C35_Step ==
    \A u \in Clients :
        (pc[u] = "cs_getSessionBetween" /\ res'[u].status = "ok" /\ ~res'[u].existed)
        => /\ res'[u].contractAddress = CreatedByOwnTx(u)
           /\ activeSessionsCache'[u] = CreatedByOwnTx(u)

\* C35 as stated: whatever the peer does on the ledger between the
\* confirmation of createSession's transaction and its getSessionBetween
\* lookup, createSession returns and caches the channel that its own
\* transaction created.
C35_ReturnsOwnChannel == [][C35_Step]_vars

\* ---------------------------------------------------------------------- C36
\* Some session was created for the pair.
EverCreatedFor(A, B) ==
    \E a \in SessionAddrs : {sess[a].participant1, sess[a].participant2} = {A, B} /\ A # B

\* C36: getSessionBetween(A, B) reports isActive = TRUE exactly when it
\* names a channel that accepts a well-formed sendMessage from A and from
\* B at that instant, which is when the channel is sessionActive and
\* block.timestamp < sessionExpiry; and it reports the zero address, with
\* isActive = FALSE, exactly when no session was ever created for the pair.
C36_LookupMatchesAcceptance ==
    \A A \in Users : \A B \in Users :
        LET r == getSessionBetween(factory, sess, A, B, now) IN
        /\ r.isActive
              <=> /\ r.contractAddr # ZeroAddress
                  /\ sendMessageRevert(sess[r.contractAddr], A, "env", "text", 0, now) = "ok"
                  /\ sendMessageRevert(sess[r.contractAddr], B, "env", "text", 0, now) = "ok"
        /\ r.isActive
              <=> /\ r.contractAddr # ZeroAddress
                  /\ sess[r.contractAddr].sessionActive
                  /\ now < sess[r.contractAddr].sessionExpiry
        /\ r.contractAddr = ZeroAddress <=> ~EverCreatedFor(A, B)
        /\ r.contractAddr = ZeroAddress => ~r.isActive

\* The pair's channel is still marked active at the instant of its
\* deadline, and the lookup reports it with isActive = FALSE.
C36_Witness ==
    LET r == getSessionBetween(factory, sess, 1, 2, now) IN
    /\ r.contractAddr # ZeroAddress
    /\ sess[r.contractAddr].sessionActive
    /\ now = sess[r.contractAddr].sessionExpiry
    /\ ~r.isActive
    /\ getSessionBetween(factory, sess, 1, 3, now).contractAddr = ZeroAddress

\* ---------------------------------------------------------------------- C37
\* C37 as stated: no user's userSessions list holds more than
\* MAX_SESSIONS_PER_USER entries, whichever side of its sessions the user
\* is on.
C37_SessionListsWithinLimit ==
    \A u \in Users : Len(factory.userSessions[u]) <= MAX_SESSIONS_PER_USER

\* ---------------------------------------------------------------------- C38
\* How often id occurs in the list ids.
Occurrences(ids, id) == Cardinality({k \in 1..Len(ids) : ids[k] = id})

\* C38: the stored messages have the ids 0..messageCounter-1 in submission
\* order; each id occurs exactly once in the conversation list of its
\* from/to pair and exactly once in the userMessages list of its sender and
\* of its addressee, and in no other list; no stored message has
\* from = to or to = 0; and stats.totalMessages = messageCounter.
C38_IndexesAgreeWithStore ==
    /\ Len(chat.messages) = chat.messageCounter
    /\ chat.totalMessages = chat.messageCounter
    /\ \A id \in 0..(chat.messageCounter - 1) :
         LET m == getMessage(chat, id) IN
         /\ m.from # m.to
         /\ m.to # ZeroAddress
         /\ m.conversationHash = generateConversationHash(m.from, m.to)
         /\ id > 0 => getMessage(chat, id - 1).timestamp <= m.timestamp
         /\ \A h \in ConversationHashes :
               Occurrences(chat.conversationMessages[h], id)
                   = IF h = generateConversationHash(m.from, m.to) THEN 1 ELSE 0
         /\ \A u \in Users :
               Occurrences(chat.userMessages[u], id)
                   = IF u \in {m.from, m.to} THEN 1 ELSE 0
    /\ \A h \in ConversationHashes : \A k \in 1..Len(chat.conversationMessages[h]) :
         chat.conversationMessages[h][k] \in 0..(chat.messageCounter - 1)
    /\ \A u \in Users : \A k \in 1..Len(chat.userMessages[u]) :
         chat.userMessages[u][k] \in 0..(chat.messageCounter - 1)

\* Two messages in opposite directions are stored, both in the one list of
\* their pair and in both users' lists.
C38_Witness ==
    /\ chat.messageCounter = 2
    /\ getMessage(chat, 0).from = 1 /\ getMessage(chat, 0).to = 2
    /\ getMessage(chat, 1).from = 2 /\ getMessage(chat, 1).to = 1
    /\ chat.conversationMessages[generateConversationHash(2, 1)] = <<0, 1>>
    /\ chat.userMessages[1] = <<0, 1>>
    /\ chat.userMessages[2] = <<0, 1>>

====
